---- MODULE Spec2Model ----
(***************************************************************************)
(* Model of the NixOS AI agent: the declarative / imperative / hybrid      *)
(* pipeline of src/ai-agent (agent.py, patcher.py, executor.py,            *)
(* llm_adapter.py, decision_engine.py, webui.py) and the guarded command   *)
(* executor of src/ai (executor.py).                                       *)
(*                                                                         *)
(* Python strings are TLA+ strings; Python dicts are records, and          *)
(* d.get(k, default) is Get(d, k, default).                                *)
(***************************************************************************)
EXTENDS Integers, Sequences, FiniteSets, TLC

VARIABLES
    \* ---- src/ai-agent: one asyncio event loop, one task per websocket ----
    running,        \* {t} while task t holds the event-loop thread, else {}
    pc,             \* pc[t]: where task t stands in websocket_endpoint
    received,       \* number of messages received so far over all sockets
    message,        \* message[t]: the message task t is processing
    intent,         \* intent[t]: classify_intent's result
    patch,          \* patch[t]: generate_patch's result
    validation_result,  \* _handle_declarative's locals, per task
    apply_result,
    build_result,
    revert_result,  \* what revert_last_commit returned (the caller drops it)
    last_commit,    \* revert_last_commit's local: HEAD when the revert started
    declarative_result, \* _handle_declarative's return value
    response,       \* what process_message returns to the socket
    config,         \* the agent's configuration, fixed at construction
    cache,          \* the patch cache of LLMAdapter: cache key -> text
    cache_faults,   \* what the file system refuses in cache_dir: read, write
    llm_calls,      \* number of requests sent to the text-generation service
    log,            \* log[t]: what task t's call of generate_patch has logged
    spawned,        \* spawned[t]: the shell commands task t started, in order
    apply_calls,    \* apply_calls[t]: calls of apply_patch for this message
    revert_calls,   \* revert_calls[t]: calls of revert_last_commit, likewise
    \* ---- the git repository at nixos_config_path ----
    tree,           \* the working tree: file -> content
    index,          \* the staging area: file -> content
    commits,        \* the commit history, oldest first; HEAD is the last
    \* ---- src/ai-agent/patcher.py called directly, one call at a time ----
    pcall,          \* the last call of a Patcher method: its name and patch
    presult,        \* what that call returned
    pruns,          \* the subprocesses that call ran, in order
    \* ---- src/ai: one call of CommandExecutor.run_command at a time ----
    xpc,            \* where the call stands
    xcommand,       \* the command passed to run_command
    xvalidation,    \* validation_result of run_command
    xtest,          \* test_result of _validate_nixos_rebuild
    xran,           \* the commands started as subprocesses during the call
    xresult,        \* what run_command returned
    xalive,         \* the child processes started by run_command and running
    \* ---- src/ai/editor.py: FileEditor, one call at a time ----
    efs,            \* the files on disk: path -> content
    ebackups,       \* the files of ai_dir/backups: name -> content
    egit,           \* the files committed by _commit_changes
    econfig,        \* the AIConfig of the editor, fixed at construction
    ecalls,         \* number of calls made so far
    ecall,          \* the last call: the method and its arguments
    eresult,        \* what that call returned
    \* ---- src/ai/agent.py: NixOSAIAgent._handle_file_edit ----
    hpc,            \* where the handler stands
    haction,        \* the action it was called with
    hedit,          \* result: what editor.apply_changes returned
    hqueue,         \* the commands of the action still to run
    hran,           \* the commands passed to run_command, in order
    hreturn,        \* what the handler returned
    \* ---- src/ai/agent.py run_daemon and src/ai/watcher.py LogWatcher ----
    dpc,            \* where run_daemon stands
    dsignal,        \* the shutdown signal the process received
    dcancel,        \* the main task has a cancellation pending
    watcher_running,    \* LogWatcher.running
    watcher_tasks,  \* LogWatcher.tasks: monitor -> state of its task
    watcher_cancel, \* the monitor tasks with a cancellation pending
    watcher_children,   \* the subprocesses started by monitors and running
    watcher_stop    \* LogWatcher.stop(): not called, called, returned

taskVars == <<running, pc, received, message, intent, patch, validation_result,
              apply_result, build_result, revert_result, last_commit,
              declarative_result, response, config, cache, cache_faults,
              llm_calls, log,
              spawned, apply_calls, revert_calls>>
repoVars == <<tree, index, commits>>
agentVars == <<taskVars, repoVars>>
patcherVars == <<pcall, presult, pruns>>
execVars == <<xpc, xcommand, xvalidation, xtest, xran, xresult, xalive>>
editorVars == <<efs, ebackups, egit, econfig, ecalls, ecall, eresult>>
handlerVars == <<hpc, haction, hedit, hqueue, hran, hreturn>>
daemonVars == <<dpc, dsignal, dcancel, watcher_running, watcher_tasks,
                watcher_cancel, watcher_children, watcher_stop>>
aiVars == <<editorVars, handlerVars, daemonVars>>
vars == <<agentVars, patcherVars, execVars, aiVars>>

(***************************************************************************)
(* Python's str and dict operations, as the code uses them.                *)
(***************************************************************************)
Get(d, k, default) == IF k \in DOMAIN d THEN d[k] ELSE default

UpperAlpha == "ABCDEFGHIJKLMNOPQRSTUVWXYZ"
LowerAlpha == "abcdefghijklmnopqrstuvwxyz"

LowerChar(c) ==
    IF \E i \in 1..26 : SubSeq(UpperAlpha, i, i) = c
    THEN LET i == CHOOSE j \in 1..26 : SubSeq(UpperAlpha, j, j) = c
         IN SubSeq(LowerAlpha, i, i)
    ELSE c

RECURSIVE Lower(_)
Lower(s) == IF s = "" THEN ""
            ELSE LowerChar(SubSeq(s, 1, 1)) \o Lower(SubSeq(s, 2, Len(s)))

\* Python's `p in s`
Contains(s, p) ==
    \E i \in 0..(Len(s) - Len(p)) : SubSeq(s, i + 1, i + Len(p)) = p

StartsWith(s, p) == Len(p) <= Len(s) /\ SubSeq(s, 1, Len(p)) = p

\* 0 when p does not occur in s, else the index of its first occurrence
Find(s, p) ==
    IF Contains(s, p)
    THEN 1 + CHOOSE i \in 0..(Len(s) - Len(p)) :
                 /\ SubSeq(s, i + 1, i + Len(p)) = p
                 /\ \A j \in 0..(i - 1) : SubSeq(s, j + 1, j + Len(p)) # p
    ELSE 0

\* Python's s.replace(old, new): every occurrence, left to right
RECURSIVE Replace(_, _, _)
Replace(s, old, new) ==
    LET i == Find(s, old)
    IN IF i = 0 \/ old = "" THEN s
       ELSE SubSeq(s, 1, i - 1) \o new
            \o Replace(SubSeq(s, i + Len(old), Len(s)), old, new)

RECURSIVE LStrip(_)
LStrip(s) == IF s # "" /\ SubSeq(s, 1, 1) = " "
             THEN LStrip(SubSeq(s, 2, Len(s))) ELSE s

RECURSIVE RStrip(_)
RStrip(s) == IF s # "" /\ SubSeq(s, Len(s), Len(s)) = " "
             THEN RStrip(SubSeq(s, 1, Len(s) - 1)) ELSE s

Strip(s) == RStrip(LStrip(s))

(***************************************************************************)
(* decision_engine.py: DecisionEngine                                      *)
(***************************************************************************)
declarative_keywords ==
    << "install", "add", "remove", "uninstall", "configure", "setup",
       "change", "modify", "update", "enable", "disable", "set",
       "create", "delete", "edit", "customize", "theme", "wallpaper" >>

imperative_keywords ==
    << "open", "launch", "start", "run", "execute", "show", "display",
       "play", "stop", "close", "quit", "exit", "restart", "reload",
       "screenshot", "record", "capture", "search", "find", "look" >>

hybrid_keywords ==
    << "install and open", "add and launch", "setup and start",
       "configure and run", "install then open" >>

_calculate_score(msg, keywords) ==
    Cardinality({i \in 1..Len(keywords) : Contains(msg, keywords[i])})

config_files ==
    << "configuration.nix", "hardware-configuration.nix", "home.nix",
       "desktop.nix", "laptop.nix" >>

RECURSIVE FilesNamed(_, _)
FilesNamed(msg, i) ==
    IF i > Len(config_files) THEN << >>
    ELSE (IF Contains(Lower(msg), config_files[i])
          THEN << "/etc/nixos/" \o config_files[i] >> ELSE << >>)
         \o FilesNamed(msg, i + 1)

_extract_target_files(msg) ==
    LET files == FilesNamed(msg, 1)
    IN IF files = << >> THEN << "/etc/nixos/configuration.nix" >> ELSE files

prefixes == << "please", "can you", "could you", "would you", "i want to" >>

_extract_command(msg) ==
    LET command == Lower(msg)
        hits == {i \in 1..Len(prefixes) : StartsWith(command, prefixes[i])}
    IN IF hits = {} THEN command
       ELSE LET i == CHOOSE j \in hits : \A k \in hits : j <= k
            IN Strip(SubSeq(command, Len(prefixes[i]) + 1, Len(command)))

conjunctions == << " and ", " then ", " after ", " followed by " >>

_split_hybrid_message(msg) ==
    LET low == Lower(msg)
        hits == {i \in 1..Len(conjunctions) : Contains(low, conjunctions[i])}
    IN IF hits = {} THEN [declarative |-> msg, imperative |-> msg]
       ELSE LET c == conjunctions[CHOOSE j \in hits : \A k \in hits : j <= k]
                at == Find(low, c)
            IN [declarative |-> Strip(SubSeq(low, 1, at - 1)),
                imperative |-> Strip(SubSeq(low, at + Len(c), Len(low)))]

\* The confidence of a classification is a float literal of the code,
\* written here as its text.  The context of a declarative intent
\* (_extract_context) only goes into the prompt and is left out.
_classify_declarative(msg) ==
    [type |-> "declarative", target_files |-> _extract_target_files(msg),
     confidence |-> "0.8"]

_classify_imperative(msg) ==
    [type |-> "imperative", command |-> _extract_command(msg),
     confidence |-> "0.8"]

_classify_hybrid(msg) ==
    LET parts == _split_hybrid_message(msg)
    IN [type |-> "hybrid",
        declarative_part |-> parts.declarative,
        imperative_part |-> parts.imperative,
        confidence |-> "0.7"]

_classify_unknown(msg) ==
    [type |-> "unknown", confidence |-> "0.1",
     message |-> "I'm not sure what you want me to do. "
                 \o "Please be more specific."]

\* classify_intent: the hybrid phrases are looked for ahead of the scores
\* when hybrid_first; the imperative score has to be above `least`
classify_intent_step(msg, least, hybrid_first) ==
    LET message_lower == Lower(msg)
        imperative_score == _calculate_score(message_lower, imperative_keywords)
        declarative_score == _calculate_score(message_lower, declarative_keywords)
        hybrid == \E i \in 1..Len(hybrid_keywords) :
                      Contains(message_lower, hybrid_keywords[i])
    IN IF hybrid_first /\ hybrid
       THEN _classify_hybrid(msg)
       ELSE IF imperative_score > declarative_score /\ imperative_score > least
       THEN _classify_imperative(msg)
       ELSE IF declarative_score > 0
       THEN _classify_declarative(msg)
       ELSE IF hybrid
       THEN _classify_hybrid(msg)
       ELSE _classify_unknown(msg)

classify_intent_NeedsTwo(msg) == classify_intent_step(msg, 1, TRUE)

classify_intent_ScoresFirst(msg) == classify_intent_step(msg, 0, FALSE)

classify_intent(msg) == classify_intent_step(msg, 0, TRUE)

(***************************************************************************)
(* Bounds of the model, and the inputs it draws from.                      *)
(***************************************************************************)
NumTasks == 2       \* websocket connections served by the one event loop
MaxMessages == 2    \* messages received over all connections

Tasks == 1..NumTasks

\* message_data.get('message', ''): the JSON value under "message".  A value
\* that is not a string is written as the name of its Python type between
\* angle brackets.
NotStr == { "<int>", "<NoneType>" }

type_name(m) == SubSeq(m, 2, Len(m) - 1)

Messages ==
    { "install vscode", "run rm -rf /", "install and open firefox", "hello" }
    \cup NotStr

Files == { "configuration.nix", "home.nix" }

\* File contents: "absent" (no such file), two well-formed texts, and one
\* text that nix-instantiate --parse rejects.
Contents == { "absent", "v0", "v1", "bad" }

None == [none |-> TRUE]

UNABLE_TO_GENERATE_PATCH == [kind |-> "sentinel"]
EmptyPatch == [kind |-> "blank"]
Diff(f, a, b) == [kind |-> "diff", file |-> f, pre |-> a, post |-> b]

\* What the text-generation service can answer (after .strip()): a diff of
\* one file from content pre to content post, nothing, or the sentinel.
LLMTexts ==
    { UNABLE_TO_GENERATE_PATCH, EmptyPatch,
      Diff("configuration.nix", "v0", "v1"),
      Diff("configuration.nix", "v0", "bad"),
      Diff("home.nix", "absent", "v1") }

Providers == { "openai", "gemini" }

(***************************************************************************)
(* patcher.py: the git repository behind Patcher                           *)
(***************************************************************************)
HEAD == Len(commits)

\* git apply / git apply --check: the text is a diff and its context matches
\* the working tree ("No valid patches in input" otherwise, or "patch does
\* not apply", or "No such file or directory")
AppliesCleanly(t, p) == p.kind = "diff" /\ t[p.file] = p.pre

Patched(t, p) == [t EXCEPT ![p.file] = p.post]

\* the tree of commit c's parent; the first commit has none
ParentTree(c) ==
    IF commits[c].parent = 0 THEN [f \in Files |-> "absent"]
    ELSE commits[commits[c].parent].tree

\* the files whose content commit c changed with respect to its parent
ChangedBy(c) == { f \in Files : commits[c].tree[f] # ParentTree(c)[f] }

\* self.repo.index.add(['.']): every file found under the working tree is
\* written into the staging area; an entry whose file is gone stays
index_add(ix, t) ==
    [f \in Files |-> IF t[f] # "absent" THEN t[f] ELSE ix[f]]

\* self.repo.index.commit(message): the staging area becomes a commit on HEAD
index_commit(ix, msg) ==
    [parent |-> HEAD, tree |-> ix, message |-> msg]

\* nix-instantiate --parse <file>: zero exit iff the file is well formed
NixParses(content) == content # "bad"

_extract_file_paths(p) == IF p.kind = "diff" THEN << p.file >> ELSE << >>

_validate_nix_syntax(p) ==
    LET file_paths == _extract_file_paths(p)
        bad == { i \in 1..Len(file_paths) :
                   /\ tree[file_paths[i]] # "absent"
                   /\ ~NixParses(tree[file_paths[i]]) }
    IN IF bad # {}
       THEN [valid |-> FALSE,
             error |-> "Nix syntax error in "
                       \o file_paths[CHOOSE i \in bad : \A j \in bad : i <= j]]
       ELSE [valid |-> TRUE, message |-> "Nix syntax validation successful"]

\* validate_patch; `fault` is a failure to run git at all (the except branch)
validate_patch(p, fault) ==
    IF p = UNABLE_TO_GENERATE_PATCH
    THEN [valid |-> FALSE, error |-> "LLM unable to generate patch"]
    ELSE IF p = EmptyPatch
    THEN [valid |-> FALSE, error |-> "Empty patch"]
    ELSE IF fault
    THEN [valid |-> FALSE, error |-> "exception"]
    ELSE IF ~AppliesCleanly(tree, p)
    THEN [valid |-> FALSE, error |-> "Git apply check failed: stderr"]
    ELSE IF ~_validate_nix_syntax(p).valid
    THEN _validate_nix_syntax(p)
    ELSE [valid |-> TRUE, message |-> "Patch validation successful"]

\* _validate_nix_syntax: the runs of nix-instantiate it makes, one for each
\* named file that exists, up to the first that fails
_validate_nix_syntax_runs(p) ==
    LET file_paths == _extract_file_paths(p)
        exists(i) == tree[file_paths[i]] # "absent"
        bad == { i \in 1..Len(file_paths) :
                   exists(i) /\ ~NixParses(tree[file_paths[i]]) }
        last == IF bad = {} THEN Len(file_paths)
                ELSE CHOOSE i \in bad : \A j \in bad : i <= j
        runs[i \in 0..last] ==
            IF i = 0 THEN << >>
            ELSE IF exists(i)
            THEN Append(runs[i - 1],
                        [tool |-> "nix-instantiate --parse",
                         file |-> file_paths[i],
                         returncode |-> IF i \in bad THEN "nonzero"
                                        ELSE "zero"])
            ELSE runs[i - 1]
    IN runs[last]

\* validate_patch: the subprocesses it runs, in order.  `syntax_first` tells
\* whether the syntax check is made ahead of the dry run.
validate_patch_runs_step(p, fault, syntax_first) ==
    IF p = UNABLE_TO_GENERATE_PATCH \/ p = EmptyPatch \/ fault THEN << >>
    ELSE IF syntax_first
    THEN _validate_nix_syntax_runs(p)
         \o << [tool |-> "git apply --check",
                returncode |-> IF AppliesCleanly(tree, p) THEN "zero"
                               ELSE "nonzero"] >>
    ELSE IF ~AppliesCleanly(tree, p)
    THEN << [tool |-> "git apply --check", returncode |-> "nonzero"] >>
    ELSE << [tool |-> "git apply --check", returncode |-> "zero"] >>
         \o _validate_nix_syntax_runs(p)

validate_patch_runs_SyntaxFirst(p, fault) ==
    validate_patch_runs_step(p, fault, TRUE)

validate_patch_runs(p, fault) == validate_patch_runs_step(p, fault, FALSE)

(***************************************************************************)
(* llm_adapter.py: LLMAdapter.generate_patch and its cache                 *)
(***************************************************************************)
\* _create_cache_key: the md5 of the request's JSON, read here as the
\* request itself
_create_cache_key(target_files, instruction) ==
    [target_files |-> target_files, instruction |-> instruction]

\* _get_cached_result: None when the cache is off, holds no entry, or holds
\* an entry that cannot be read (the except branch)
_get_cached_result(cache_key) ==
    IF ~config.cache_enabled THEN None
    ELSE IF cache_key \in DOMAIN cache /\ "read" \notin cache_faults
    THEN cache[cache_key]
    ELSE None

\* `if cached_result:` is false for None and for the empty text
Truthy(text) == text # None /\ text # EmptyPatch

\* _cache_result; when the file cannot be opened for writing the cache stays
\* as it was (the except branch)
_cache_result(cache_key, text) ==
    IF ~config.cache_enabled \/ "write" \in cache_faults THEN cache
    ELSE (cache_key :> text) @@ cache

\* A request to the text-generation service ends with a text or by raising
Raises == [kind |-> "raises"]
LLMAnswers == LLMTexts \cup { Raises }

\* _call_openai and _call_gemini: `except Exception` gives the sentinel
_call_openai(answer) ==
    IF answer = Raises THEN UNABLE_TO_GENERATE_PATCH ELSE answer

_call_gemini(answer) ==
    IF answer = Raises THEN UNABLE_TO_GENERATE_PATCH ELSE answer

\* generate_patch: what its own `except Exception` branch returns
generate_patch_raised == Raises

generate_patch_except == UNABLE_TO_GENERATE_PATCH

\* the warnings and errors the logger writes in generate_patch: by
\* _get_cached_result, by _call_openai or _call_gemini, by _cache_result
LoggedReading(cache_key) ==
    IF config.cache_enabled /\ cache_key \in DOMAIN cache
       /\ "read" \in cache_faults
    THEN { "Error reading cache file" } ELSE {}

LoggedCalling(answer, provider) ==
    IF answer # Raises THEN {}
    ELSE IF provider = "openai" THEN { "OpenAI API error" }
    ELSE { "Gemini API error" }

LoggedCaching ==
    IF config.cache_enabled /\ "write" \in cache_faults
    THEN { "Error caching result" } ELSE {}

(***************************************************************************)
(* agent.py: what the handlers return                                      *)
(***************************************************************************)
ErrorResult(err) == [status |-> "error", error |-> err]

BuildFailedResult_NoSuggestion(b) ==
    [status |-> "error", error |-> "Build failed: " \o b.error]

BuildFailedResult(b) ==
    [status |-> "error",
     error |-> "Build failed: " \o b.error,
     suggestion |-> "Consider using fallback installation methods"]

DeclarativeSuccess(p, a) ==
    [status |-> "success", patch |-> p, commit_hash |-> a.commit_hash,
     message |-> "Configuration updated successfully"]

ImperativeResult(command, r) ==
    [status |-> IF r.success THEN "success" ELSE "error",
     output |-> r.output,
     error |-> Get(r, "error", ""),
     message |-> "Executed: " \o command]

HybridResult(d, i) ==
    [status |-> "success", declarative |-> d, imperative |-> i,
     message |-> "Both declarative and imperative actions completed"]

\* process_message: response.update(result) over the initial response
ResponseOf(t, result) ==
    result @@ [intent |-> intent[t], message |-> message[t],
               user_id |-> "default", status |-> "success"]

\* process_message: the branch for an intent type that has no handler
UnknownIntentResponse(msg, i) ==
    [intent |-> i, message |-> msg, user_id |-> "default",
     status |-> "error", error |-> "Unknown intent type: " \o i.type]

\* classify_intent: message.lower() raises AttributeError when the message
\* is not a str; str(e) of that exception
classify_intent_raises(msg) == msg \in NotStr

AttributeError(msg) ==
    "'" \o type_name(msg) \o "' object has no attribute 'lower'"

\* process_message: what an exception e caught by its `except Exception`
\* turns into
process_message_raised(msg, e) == [kind |-> "raises", error |-> e]

process_message_except(msg, e) ==
    [intent |-> [type |-> "error"], message |-> msg, user_id |-> "default",
     status |-> "error", error |-> e]

(***************************************************************************)
(* The state after construction: NixOSAIAgent.__init__, Patcher._init_repo *)
(***************************************************************************)
InitialTree == [f \in Files |-> IF f = "configuration.nix" THEN "v0" ELSE "absent"]

ExecIdle ==
    /\ xpc = "idle"
    /\ xcommand = ""
    /\ xvalidation = None
    /\ xtest = None
    /\ xran = << >>
    /\ xresult = None
    /\ xalive = << >>

PatcherIdle ==
    /\ pcall = None
    /\ presult = None
    /\ pruns = << >>

AgentInit ==
    /\ running = {}
    /\ pc = [t \in Tasks |-> "recv"]
    /\ received = 0
    /\ message = [t \in Tasks |-> ""]
    /\ intent = [t \in Tasks |-> None]
    /\ patch = [t \in Tasks |-> None]
    /\ validation_result = [t \in Tasks |-> None]
    /\ apply_result = [t \in Tasks |-> None]
    /\ build_result = [t \in Tasks |-> None]
    /\ revert_result = [t \in Tasks |-> None]
    /\ last_commit = [t \in Tasks |-> 0]
    /\ declarative_result = [t \in Tasks |-> None]
    /\ response = [t \in Tasks |-> None]
    /\ tree = InitialTree
    /\ index = InitialTree
    /\ commits = << [parent |-> 0, tree |-> InitialTree,
                     message |-> "Initial NixOS configuration"] >>
    /\ config \in [llm_provider : Providers, cache_enabled : BOOLEAN]
    /\ cache = << >>
    /\ cache_faults = {}
    /\ llm_calls = 0
    /\ log = [t \in Tasks |-> {}]
    /\ spawned = [t \in Tasks |-> << >>]
    /\ apply_calls = [t \in Tasks |-> 0]
    /\ revert_calls = [t \in Tasks |-> 0]

(***************************************************************************)
(* src/ai: the files FileEditor works on.  A path is the sequence of its   *)
(* components.  A file's content is the sequence of its lines, that is     *)
(* content.split('\n'), of which '\n'.join is the inverse.                 *)
(***************************************************************************)
ai_dir == << "etc", "nixos", "nixos-ai" >>

TestNix == ai_dir \o << "test.nix" >>
NotesTxt == ai_dir \o << "notes.txt" >>
Passwd == << "etc", "passwd" >>
OldConfiguration == << "etc", "nixos", "nixos-ai-old", "configuration.nix" >>

\* /etc/nixos/nixos-ai/link is a symbolic link to /etc/passwd
LinkInAiDir == ai_dir \o << "link" >>
Symlinks == [p \in { LinkInAiDir } |-> Passwd]

InitialFiles ==
    [p \in { TestNix, NotesTxt, Passwd, OldConfiguration } |->
        CASE p = TestNix -> << "services.docker.enable = true;", "" >>
          [] p = NotesTxt -> << "todo", "" >>
          [] p = Passwd -> << "root:x:0:0::/root:/bin/sh", "" >>
          [] OTHER -> << "{ }", "" >>]

\* config.py: _get_default_config
DefaultAIConfig ==
    [allowed_paths |-> << ai_dir >>,
     enable_system_wide_access |-> FALSE,
     auto_commit |-> TRUE,
     validation_required |-> TRUE]

NoFiles == [p \in {} |-> << >>]

\* FileEditor.__init__, before any call
EditorFresh ==
    /\ efs = InitialFiles
    /\ ebackups = NoFiles
    /\ egit = {}
    /\ ecalls = 0
    /\ ecall = None
    /\ eresult = None

EditorIdle == EditorFresh /\ econfig = DefaultAIConfig

HandlerIdle ==
    /\ hpc = "idle"
    /\ haction = None
    /\ hedit = None
    /\ hqueue = << >>
    /\ hran = << >>
    /\ hreturn = None

Monitors ==
    { "_watch_system_logs", "_watch_service_status", "_watch_file_changes",
      "_watch_error_logs" }

\* LogWatcher.__init__, and run_daemon not yet called
DaemonIdle ==
    /\ dpc = "init"
    /\ dsignal = "none"
    /\ dcancel = FALSE
    /\ watcher_running = FALSE
    /\ watcher_tasks = [m \in Monitors |-> "none"]
    /\ watcher_cancel = {}
    /\ watcher_children = {}
    /\ watcher_stop = "not called"

Init == AgentInit /\ PatcherIdle /\ ExecIdle /\ EditorIdle /\ HandlerIdle /\ DaemonIdle

(***************************************************************************)
(* The event loop.  Every handler is a coroutine on the one asyncio loop   *)
(* that uvicorn's server shares (webui.py: start).  A task gives up the    *)
(* thread only where it awaits something that is not yet done:             *)
(* websocket.receive_text, websocket.send_text and                         *)
(* openai.ChatCompletion.acreate.  subprocess.run and the GitPython calls  *)
(* block the thread.  A task may take a step when it holds the thread or   *)
(* when the thread is free.                                                *)
(***************************************************************************)
Runs(t) == running \subseteq {t}

Set(f, t, v) == [f EXCEPT ![t] = v]

Repo == <<tree, index, commits>>
Llm == <<cache, cache_faults, llm_calls, log>>

\* webui.py: data = await websocket.receive_text()
Receive(t) ==
    /\ running = {}
    /\ pc[t] = "recv"
    /\ received < MaxMessages
    /\ \E m \in Messages : message' = Set(message, t, m)
    /\ received' = received + 1
    /\ running' = {t}
    /\ pc' = Set(pc, t, "classify")
    /\ UNCHANGED <<intent, patch, validation_result, apply_result, build_result,
                   revert_result, last_commit, declarative_result, response,
                   spawned, apply_calls, revert_calls, Repo, Llm, config,
                   patcherVars, execVars, aiVars>>

\* agent.py: process_message, up to the dispatch on intent['type'];
\* `declarative` are the intent types that go to _handle_declarative, alone
\* or from _handle_hybrid
ClassifyStep(t, declarative) ==
    /\ Runs(t)
    /\ pc[t] = "classify"
    /\ IF classify_intent_raises(message[t])
       THEN /\ pc' = Set(pc, t, "respond")
            /\ response' = Set(response, t,
                  process_message_except(message[t],
                                         AttributeError(message[t])))
            /\ UNCHANGED intent
       ELSE LET i == classify_intent(message[t])
            IN /\ intent' = Set(intent, t, i)
               /\ IF i.type \in declarative
                  THEN /\ pc' = Set(pc, t, "generate")
                       /\ UNCHANGED response
                  ELSE IF i.type = "imperative"
                  THEN /\ pc' = Set(pc, t, "run_command")
                       /\ UNCHANGED response
                  ELSE /\ pc' = Set(pc, t, "respond")
                       /\ response' = Set(response, t,
                             UnknownIntentResponse(message[t], i))
    /\ running' = {t}
    /\ UNCHANGED <<received, message, patch, validation_result, apply_result,
                   build_result, revert_result, last_commit, declarative_result,
                   spawned, apply_calls, revert_calls, Repo, Llm, config,
                   patcherVars, execVars, aiVars>>

Classify_UnknownToDeclarative(t) ==
    ClassifyStep(t, { "declarative", "hybrid", "unknown" })

Classify(t) == ClassifyStep(t, { "declarative", "hybrid" })

\* llm_adapter.py: generate_patch up to the call of the service.  A cache hit
\* returns at once.  openai's acreate suspends the task; gemini's
\* generate_content is a blocking call, answered within this step.  `fault`
\* is an exception raised while the key or the prompt is made.
Generate(t) ==
    /\ Runs(t)
    /\ pc[t] = "generate"
    /\ \E fault \in BOOLEAN :
       LET cache_key == _create_cache_key(Get(intent[t], "target_files", << >>),
                                          message[t])
           cached_result == _get_cached_result(cache_key)
       IN IF fault
          THEN /\ patch' = Set(patch, t, generate_patch_except)
               /\ log' = Set(log, t, { "Error generating patch" })
               /\ pc' = Set(pc, t, "check")
               /\ running' = {t}
               /\ UNCHANGED <<cache, llm_calls>>
          ELSE IF Truthy(cached_result)
          THEN /\ patch' = Set(patch, t, cached_result)
               /\ log' = Set(log, t, {})
               /\ pc' = Set(pc, t, "check")
               /\ running' = {t}
               /\ UNCHANGED <<cache, llm_calls>>
          ELSE IF config.llm_provider = "openai"
          THEN /\ pc' = Set(pc, t, "llm_wait")
               /\ running' = {}
               /\ llm_calls' = llm_calls + 1
               /\ log' = Set(log, t, LoggedReading(cache_key))
               /\ UNCHANGED <<patch, cache>>
          ELSE \E answer \in LLMAnswers :
                  /\ patch' = Set(patch, t, _call_gemini(answer))
                  /\ cache' = _cache_result(cache_key, _call_gemini(answer))
                  /\ llm_calls' = llm_calls + 1
                  /\ log' = Set(log, t,
                        LoggedReading(cache_key)
                        \cup LoggedCalling(answer, "gemini")
                        \cup LoggedCaching)
                  /\ pc' = Set(pc, t, "check")
                  /\ running' = {t}
    /\ UNCHANGED <<received, message, intent, validation_result, apply_result,
                   build_result, revert_result, last_commit, declarative_result,
                   response, spawned, apply_calls, revert_calls, Repo, config,
                   cache_faults, patcherVars, execVars, aiVars>>

\* llm_adapter.py: _call_openai returns, generate_patch stores the text and
\* returns it
LLMReturn(t) ==
    /\ running = {}
    /\ pc[t] = "llm_wait"
    /\ \E answer \in LLMAnswers :
          /\ patch' = Set(patch, t, _call_openai(answer))
          /\ cache' = _cache_result(
                 _create_cache_key(Get(intent[t], "target_files", << >>),
                                   message[t]),
                 _call_openai(answer))
          /\ log' = Set(log, t,
                log[t] \cup LoggedCalling(answer, "openai")
                \cup LoggedCaching)
    /\ pc' = Set(pc, t, "check")
    /\ running' = {t}
    /\ UNCHANGED <<received, message, intent, validation_result, apply_result,
                   build_result, revert_result, last_commit, declarative_result,
                   response, spawned, apply_calls, revert_calls, Repo,
                   llm_calls, config, cache_faults, patcherVars, execVars, aiVars>>

\* agent.py: generate_patch has returned and its frame is gone;
\* if patch == "UNABLE_TO_GENERATE_PATCH": return error
CheckPatch(t) ==
    /\ Runs(t)
    /\ pc[t] = "check"
    /\ IF patch[t] = UNABLE_TO_GENERATE_PATCH
       THEN /\ declarative_result' = Set(declarative_result, t,
                  ErrorResult("Unable to generate patch for this request"))
            /\ pc' = Set(pc, t, "decl_done")
       ELSE /\ pc' = Set(pc, t, "validate")
            /\ UNCHANGED declarative_result
    /\ log' = Set(log, t, {})
    /\ running' = {t}
    /\ UNCHANGED <<received, message, intent, patch, validation_result,
                   apply_result, build_result, revert_result, last_commit,
                   response, spawned, apply_calls, revert_calls, Repo, cache,
                   cache_faults, llm_calls, config, patcherVars, execVars, aiVars>>

\* agent.py: validation_result = await self.patcher.validate_patch(patch) and
\* `if not validation_result['valid']: return ...`; `returns` tells whether
\* the handler returns on an invalid patch
ValidateStep(t, returns) ==
    /\ Runs(t)
    /\ pc[t] = "validate"
    /\ \E fault \in BOOLEAN :
          LET v == validate_patch(patch[t], fault)
          IN /\ validation_result' = Set(validation_result, t, v)
             /\ IF ~v.valid /\ returns
                THEN /\ declarative_result' = Set(declarative_result, t,
                           ErrorResult("Patch validation failed: " \o v.error))
                     /\ pc' = Set(pc, t, "decl_done")
                ELSE /\ pc' = Set(pc, t, "apply")
                     /\ UNCHANGED declarative_result
    /\ running' = {t}
    /\ UNCHANGED <<received, message, intent, patch, apply_result, build_result,
                   revert_result, last_commit, response, spawned, apply_calls,
                   revert_calls, Repo, Llm, config, patcherVars, execVars, aiVars>>

Validate_FallsThrough(t) == ValidateStep(t, FALSE)

Validate(t) == ValidateStep(t, TRUE)

\* patcher.py: apply_patch is entered
ApplyBegin(t) ==
    /\ Runs(t)
    /\ pc[t] = "apply"
    /\ apply_calls' = Set(apply_calls, t, apply_calls[t] + 1)
    /\ pc' = Set(pc, t, "apply_git")
    /\ running' = {t}
    /\ UNCHANGED <<received, message, intent, patch, validation_result,
                   apply_result, build_result, revert_result, last_commit,
                   declarative_result, response, spawned, revert_calls, Repo,
                   Llm, config, patcherVars, execVars, aiVars>>

\* patcher.py: subprocess.run(['git', 'apply']); git writes the files only
\* when the whole diff applies.  `next` is who holds the thread afterwards.
ApplyGitStep(t, next) ==
    /\ Runs(t)
    /\ pc[t] = "apply_git"
    /\ \E git_ok \in BOOLEAN :
          IF git_ok /\ AppliesCleanly(tree, patch[t])
          THEN /\ tree' = Patched(tree, patch[t])
               /\ pc' = Set(pc, t, "apply_commit")
               /\ UNCHANGED <<apply_result, declarative_result>>
          ELSE /\ apply_result' = Set(apply_result, t,
                     [success |-> FALSE,
                      error |-> "Failed to apply patch: stderr"])
               /\ declarative_result' = Set(declarative_result, t,
                     ErrorResult("Patch application failed: "
                                 \o "Failed to apply patch: stderr"))
               /\ pc' = Set(pc, t, "decl_done")
               /\ UNCHANGED tree
    /\ running' = next
    /\ UNCHANGED <<received, message, intent, patch, validation_result,
                   build_result, revert_result, last_commit, response, spawned,
                   apply_calls, revert_calls, index, commits, Llm, config,
                   patcherVars, execVars, aiVars>>

ApplyGit_Yields(t) == ApplyGitStep(t, {})

ApplyGit(t) == ApplyGitStep(t, {t})

\* How staging and committing can end: both work, index.add raises, or
\* index.commit raises after index.add has written the staging area
CommitOutcomes == { "committed", "add_raises", "commit_raises" }

\* patcher.py: apply_patch from self.repo.index.add(['.']) to its return:
\* the staging area, the history and the result.  index.commit either adds
\* its commit or raises; `kept` tells whether a commit that raised stays;
\* wt is the working tree that `git apply` has left; e is str(e) of the
\* exception raised, if one is.
StageAndCommitStep(wt, outcome, kept, e) ==
    LET staged == index_add(index, wt)
        added == Append(commits, index_commit(staged, "ai: "))
    IN CASE outcome = "committed" ->
              [index |-> staged, commits |-> added,
               result |-> [success |-> TRUE, commit_hash |-> HEAD + 1,
                           message |-> "Patch applied successfully"]]
         [] outcome = "commit_raises" ->
              [index |-> staged,
               commits |-> IF kept THEN added ELSE commits,
               result |-> [success |-> FALSE, error |-> e]]
         [] OTHER ->
              [index |-> index, commits |-> commits,
               result |-> [success |-> FALSE, error |-> e]]

StageAndCommit_KeepsFailedCommit(wt, outcome, e) ==
    StageAndCommitStep(wt, outcome, TRUE, e)

StageAndCommit(wt, outcome, e) == StageAndCommitStep(wt, outcome, FALSE, e)

\* str(e) of the exceptions index.add and index.commit raise: the operating
\* system's message, with the path it is about
FaultDetails ==
    { "[Errno 13] Permission denied: '/etc/nixos/.git/index.lock'",
      "[Errno 28] No space left on device" }

\* patcher.py: self.repo.index.add(['.']); self.repo.index.commit(...) and
\* the return of apply_patch to _handle_declarative
ApplyCommit(t) ==
    /\ Runs(t)
    /\ pc[t] = "apply_commit"
    /\ \E outcome \in CommitOutcomes, e \in FaultDetails :
          LET done == StageAndCommit(tree, outcome, e)
          IN /\ index' = done.index
             /\ commits' = done.commits
             /\ apply_result' = Set(apply_result, t, done.result)
             /\ IF done.result.success
                THEN /\ pc' = Set(pc, t, "test_build")
                     /\ UNCHANGED declarative_result
                ELSE /\ declarative_result' = Set(declarative_result, t,
                           ErrorResult("Patch application failed: "
                                       \o done.result.error))
                     /\ pc' = Set(pc, t, "decl_done")
    /\ running' = {t}
    /\ UNCHANGED <<received, message, intent, patch, validation_result,
                   build_result, revert_result, last_commit, response, spawned,
                   apply_calls, revert_calls, tree, Llm, config,
                   patcherVars, execVars, aiVars>>

(***************************************************************************)
(* executor.py (ai-agent): Executor.test_build                             *)
(***************************************************************************)
BuildOutcomes == { "success", "failed", "timeout", "exception" }

\* What nixos-rebuild test writes to its stderr; the second text is the one
\* test_build itself gives for a timeout
BuildStderr == { "stderr", "Build test timed out after 30 minutes" }

\* test_build: subprocess.run([nixos-rebuild, test, ...], timeout=1800) and
\* the result made of its outcome; on_timeout is what the branch
\* `except subprocess.TimeoutExpired` returns
test_build_step(outcome, stdout, stderr, on_timeout) ==
    CASE outcome = "success" ->
           [success |-> TRUE, output |-> stdout,
            message |-> "Configuration build successful"]
      [] outcome = "failed" ->
           [success |-> FALSE, error |-> stderr, output |-> stdout]
      [] outcome = "timeout" -> on_timeout
      [] OTHER -> [success |-> FALSE, error |-> "exception"]

test_build_TimeoutAsFailed(outcome, stdout, stderr) ==
    test_build_step(outcome, stdout, stderr,
                    [success |-> FALSE, error |-> stderr, output |-> stdout])

test_build(outcome, stdout, stderr) ==
    test_build_step(outcome, stdout, stderr,
                    [success |-> FALSE,
                     error |-> "Build test timed out after 30 minutes"])

\* agent.py: build_result = await self.executor.test_build() and the branch on
\* it.  `reverted` are the outcomes after which the handler goes on to
\* revert_last_commit; `next` is who holds the thread afterwards.
TestBuildStep(t, reverted, next) ==
    /\ Runs(t)
    /\ pc[t] = "test_build"
    /\ \E outcome \in BuildOutcomes, stderr \in BuildStderr :
          LET b == test_build(outcome, "stdout", stderr)
          IN /\ build_result' = Set(build_result, t, b)
             /\ IF outcome \in reverted
                THEN /\ pc' = Set(pc, t, "revert")
                     /\ UNCHANGED declarative_result
                ELSE /\ pc' = Set(pc, t, "decl_done")
                     /\ declarative_result' = Set(declarative_result, t,
                           IF b.success
                           THEN DeclarativeSuccess(patch[t], apply_result[t])
                           ELSE BuildFailedResult(b))
    /\ running' = next
    /\ UNCHANGED <<received, message, intent, patch, validation_result,
                   apply_result, revert_result, last_commit, response, spawned,
                   apply_calls, revert_calls, Repo, Llm, config, patcherVars, execVars, aiVars>>

TestBuild_TimeoutNotReverted(t) ==
    TestBuildStep(t, { "failed", "exception" }, {t})

TestBuild_Yields(t) ==
    TestBuildStep(t, { "failed", "timeout", "exception" }, {})

TestBuild(t) == TestBuildStep(t, { "failed", "timeout", "exception" }, {t})

\* patcher.py: revert_last_commit is entered; last_commit = self.repo.head.commit
RevertBegin(t) ==
    /\ Runs(t)
    /\ pc[t] = "revert"
    /\ revert_calls' = Set(revert_calls, t, revert_calls[t] + 1)
    /\ last_commit' = Set(last_commit, t, HEAD)
    /\ pc' = Set(pc, t, "revert_git")
    /\ running' = {t}
    /\ UNCHANGED <<received, message, intent, patch, validation_result,
                   apply_result, build_result, revert_result,
                   declarative_result, response, spawned, apply_calls, Repo,
                   Llm, config, patcherVars, execVars, aiVars>>

\* git revert HEAD --no-edit refuses when the staging area differs from HEAD
\* ("your local changes would be overwritten by revert"), when a file that
\* HEAD changed is modified in the working tree, and when HEAD changed
\* nothing ("nothing to commit")
CanRevert ==
    /\ index = commits[HEAD].tree
    /\ ChangedBy(HEAD) # {}
    /\ \A f \in ChangedBy(HEAD) : tree[f] = commits[HEAD].tree[f]

\* the commit git revert writes: HEAD's changes undone on top of HEAD
RevertCommit ==
    [parent |-> HEAD,
     tree |-> [f \in Files |->
                 IF f \in ChangedBy(HEAD) THEN ParentTree(HEAD)[f]
                 ELSE commits[HEAD].tree[f]],
     message |-> "Revert"]

\* patcher.py: revert_last_commit from self.repo.git.revert('HEAD',
\* '--no-edit') to its return: the working tree, the staging area, the
\* history and the result.  `history` is the history after a revert that
\* worked.  git_ok is false when git cannot be run at all.
RevertStep(git_ok, history) ==
    IF git_ok /\ CanRevert
    THEN [tree |-> [f \in Files |->
                      IF f \in ChangedBy(HEAD) THEN ParentTree(HEAD)[f]
                      ELSE tree[f]],
          index |-> RevertCommit.tree,
          commits |-> history,
          result |-> [success |-> TRUE, message |-> "Reverted commit"]]
    ELSE [tree |-> tree, index |-> index, commits |-> commits,
          result |-> [success |-> FALSE,
                      error |-> IF git_ok THEN "git revert failed"
                                ELSE "exception"]]

Revert_ResetsHead(git_ok) ==
    RevertStep(git_ok, SubSeq(commits, 1, HEAD - 1))

Revert(git_ok) == RevertStep(git_ok, Append(commits, RevertCommit))

\* patcher.py: self.repo.git.revert('HEAD', '--no-edit') and the return of
\* revert_last_commit; agent.py drops the result and returns the build error
RevertGit(t) ==
    /\ Runs(t)
    /\ pc[t] = "revert_git"
    /\ \E git_ok \in BOOLEAN :
          LET done == Revert(git_ok)
          IN /\ tree' = done.tree
             /\ index' = done.index
             /\ commits' = done.commits
             /\ revert_result' = Set(revert_result, t, done.result)
    /\ declarative_result' = Set(declarative_result, t,
          BuildFailedResult(build_result[t]))
    /\ pc' = Set(pc, t, "decl_done")
    /\ running' = {t}
    /\ UNCHANGED <<received, message, intent, patch, validation_result,
                   apply_result, build_result, last_commit, response, spawned,
                   apply_calls, revert_calls, Llm, config, patcherVars,
                   execVars, aiVars>>

\* agent.py: _handle_declarative has returned, to process_message or to
\* _handle_hybrid.  `gate` tells whether the imperative half may follow.
DeclReturnStep(t, gate) ==
    /\ Runs(t)
    /\ pc[t] = "decl_done"
    /\ IF intent[t].type = "hybrid" /\ gate
       THEN /\ pc' = Set(pc, t, "run_command")
            /\ UNCHANGED response
       ELSE /\ pc' = Set(pc, t, "respond")
            /\ response' = Set(response, t, ResponseOf(t, declarative_result[t]))
    /\ running' = {t}
    /\ UNCHANGED <<received, message, intent, patch, validation_result,
                   apply_result, build_result, revert_result, last_commit,
                   declarative_result, spawned, apply_calls, revert_calls, Repo,
                   Llm, config, patcherVars, execVars, aiVars>>

DeclReturn_Always(t) == DeclReturnStep(t, TRUE)

DeclReturn(t) == DeclReturnStep(t, declarative_result[t].status = "success")

(***************************************************************************)
(* executor.py (ai-agent): Executor.run_command -> _run_system_command     *)
(***************************************************************************)
CommandOutcomes == { "zero", "nonzero", "timeout", "exception" }

_run_system_command(outcome) ==
    CASE outcome = "zero" ->
           [success |-> TRUE, output |-> "stdout", error |-> "stderr",
            return_code |-> "zero"]
      [] outcome = "nonzero" ->
           [success |-> FALSE, output |-> "stdout", error |-> "stderr",
            return_code |-> "nonzero"]
      [] outcome = "timeout" ->
           [success |-> FALSE, error |-> "Command timed out", output |-> ""]
      [] OTHER -> [success |-> FALSE, error |-> "exception", output |-> ""]

\* agent.py: _handle_imperative; the command goes to the shell as
\* "sudo <command>" with no check of its text.  An exception of
\* subprocess.run other than the timeout means no process was started.
RunCommand(t) ==
    /\ Runs(t)
    /\ pc[t] = "run_command"
    /\ LET command == Get(intent[t], "command", message[t])
       IN \E outcome \in CommandOutcomes :
             LET result == ImperativeResult(command, _run_system_command(outcome))
             IN /\ spawned' = Set(spawned, t,
                      IF outcome = "exception" THEN spawned[t]
                      ELSE Append(spawned[t], "sudo " \o command))
                /\ response' = Set(response, t,
                      ResponseOf(t,
                         IF intent[t].type = "hybrid"
                         THEN HybridResult(declarative_result[t], result)
                         ELSE result))
    /\ pc' = Set(pc, t, "respond")
    /\ running' = {t}
    /\ UNCHANGED <<received, message, intent, patch, validation_result,
                   apply_result, build_result, revert_result, last_commit,
                   declarative_result, apply_calls, revert_calls, Repo, Llm,
                   config, patcherVars, execVars, aiVars>>

\* webui.py: await websocket.send_text(json.dumps(response)); the handler's
\* locals die and the loop goes back to receive_text
Send(t) ==
    /\ Runs(t)
    /\ pc[t] = "respond"
    /\ pc' = Set(pc, t, "recv")
    /\ running' = {}
    /\ message' = Set(message, t, "")
    /\ intent' = Set(intent, t, None)
    /\ patch' = Set(patch, t, None)
    /\ validation_result' = Set(validation_result, t, None)
    /\ apply_result' = Set(apply_result, t, None)
    /\ build_result' = Set(build_result, t, None)
    /\ revert_result' = Set(revert_result, t, None)
    /\ last_commit' = Set(last_commit, t, 0)
    /\ declarative_result' = Set(declarative_result, t, None)
    /\ response' = Set(response, t, None)
    /\ spawned' = Set(spawned, t, << >>)
    /\ apply_calls' = Set(apply_calls, t, 0)
    /\ revert_calls' = Set(revert_calls, t, 0)
    /\ UNCHANGED <<received, Repo, Llm, config, patcherVars, execVars, aiVars>>

Next ==
    \E t \in Tasks :
        \/ Receive(t)
        \/ Classify(t)
        \/ Generate(t)
        \/ LLMReturn(t)
        \/ CheckPatch(t)
        \/ Validate(t)
        \/ ApplyBegin(t)
        \/ ApplyGit(t)
        \/ ApplyCommit(t)
        \/ TestBuild(t)
        \/ RevertBegin(t)
        \/ RevertGit(t)
        \/ DeclReturn(t)
        \/ RunCommand(t)
        \/ Send(t)

Spec == Init /\ [][Next]_vars

(***************************************************************************)
(* llm_adapter.py: generate_patch called directly by the tasks, as         *)
(* _handle_declarative calls it, on a cache directory that can fail.       *)
(***************************************************************************)
\* The messages that lead to generate_patch
Requests ==
    { m \in Messages \ NotStr : classify_intent(m).type \in { "declarative", "hybrid" } }

GUnchanged ==
    UNCHANGED <<validation_result, apply_result, build_result, revert_result,
                last_commit, declarative_result, response, spawned,
                apply_calls, revert_calls, Repo, config, patcherVars,
                execVars, aiVars>>

\* agent.py: patch = await self.llm_adapter.generate_patch(target_files,
\* original_message, context) is reached
GCall(t) ==
    /\ running = {}
    /\ pc[t] = "recv"
    /\ received < MaxMessages
    /\ \E m \in Requests :
          /\ message' = Set(message, t, m)
          /\ intent' = Set(intent, t, classify_intent(m))
    /\ received' = received + 1
    /\ pc' = Set(pc, t, "generate")
    /\ running' = {t}
    /\ UNCHANGED <<patch, Llm>>
    /\ GUnchanged

\* the caller has the result of generate_patch
GReturn(t) ==
    /\ Runs(t)
    /\ pc[t] = "check"
    /\ pc' = Set(pc, t, "recv")
    /\ message' = Set(message, t, "")
    /\ intent' = Set(intent, t, None)
    /\ patch' = Set(patch, t, None)
    /\ log' = Set(log, t, {})
    /\ running' = {}
    /\ UNCHANGED <<received, cache, cache_faults, llm_calls>>
    /\ GUnchanged

\* the file system under cache_dir starts or stops refusing reads or writes
CacheFault ==
    /\ \E faults \in SUBSET { "read", "write" } :
          /\ faults # cache_faults
          /\ cache_faults' = faults
    /\ UNCHANGED <<running, pc, received, message, intent, patch, cache,
                   llm_calls, log>>
    /\ GUnchanged

LLMNext ==
    \/ CacheFault
    \/ \E t \in Tasks :
          GCall(t) \/ Generate(t) \/ LLMReturn(t) \/ GReturn(t)

SpecLLM == Init /\ [][LLMNext]_vars

(***************************************************************************)
(* patcher.py: the methods of Patcher called directly, in any order, one   *)
(* call at a time (none of them gives up the thread before it returns).    *)
(***************************************************************************)
\* Bound of the model: commits in the history
MaxCommits == 4

\* The texts the methods are called with
PatchTexts ==
    LLMTexts \cup { Diff("configuration.nix", "v0", "absent"),
                    Diff("configuration.nix", "v1", "bad"),
                    Diff("configuration.nix", "bad", "v0"),
                    Diff("home.nix", "v0", "v1") }

PUnchanged == UNCHANGED <<taskVars, execVars, aiVars>>

\* await patcher.validate_patch(patch)
PValidate ==
    /\ \E p \in PatchTexts, fault \in BOOLEAN :
          /\ pcall' = [op |-> "validate_patch", patch |-> p]
          /\ presult' = validate_patch(p, fault)
          /\ pruns' = validate_patch_runs(p, fault)
    /\ UNCHANGED repoVars
    /\ PUnchanged

\* await patcher.apply_patch(patch, message)
PApply ==
    /\ HEAD < MaxCommits
    /\ \E p \in PatchTexts, git_ok \in BOOLEAN, outcome \in CommitOutcomes :
          /\ pcall' = [op |-> "apply_patch", patch |-> p]
          /\ IF git_ok /\ AppliesCleanly(tree, p)
             THEN LET done == StageAndCommit(Patched(tree, p), outcome,
                                            "exception")
                  IN /\ tree' = Patched(tree, p)
                     /\ index' = done.index
                     /\ commits' = done.commits
                     /\ presult' = done.result
             ELSE /\ presult' = [success |-> FALSE,
                                 error |-> "Failed to apply patch: stderr"]
                  /\ UNCHANGED repoVars
    /\ pruns' = << >>
    /\ PUnchanged

\* await patcher.revert_last_commit()
PRevert ==
    /\ HEAD < MaxCommits
    /\ pcall' = [op |-> "revert_last_commit"]
    /\ \E git_ok \in BOOLEAN :
          LET done == Revert(git_ok)
          IN /\ tree' = done.tree
             /\ index' = done.index
             /\ commits' = done.commits
             /\ presult' = done.result
    /\ pruns' = << >>
    /\ PUnchanged

PatcherInit ==
    /\ Init
    /\ config = [llm_provider |-> "openai", cache_enabled |-> TRUE]

PatcherNext == PValidate \/ PApply \/ PRevert

SpecPatcher == PatcherInit /\ [][PatcherNext]_vars

(***************************************************************************)
(* src/ai/executor.py: CommandExecutor                                     *)
(***************************************************************************)
dangerous_commands ==
    << "rm -rf /", "dd if=/dev/zero", "mkfs", "fdisk", "parted", "wipefs",
       "shutdown", "reboot", "halt", "poweroff" >>

dangerous_patterns ==
    << "rm -rf", "dd if=", "mkfs", "fdisk", "parted", "wipefs", "shutdown",
       "reboot", "halt", "poweroff", "> /dev/", "| sh", "curl.*| bash",
       "wget.*| sh" >>

validation_commands ==
    << "nixos-rebuild", "nix-env", "systemctl", "service", "systemd" >>

_is_dangerous_command(command) ==
    LET command_lower == Lower(command)
    IN \/ \E i \in 1..Len(dangerous_commands) :
             Contains(command_lower, dangerous_commands[i])
       \/ \E i \in 1..Len(dangerous_patterns) :
             Contains(command_lower, dangerous_patterns[i])

_requires_validation(command) ==
    \E i \in 1..Len(validation_commands) :
        StartsWith(Lower(command), validation_commands[i])

\* _validate_nixos_rebuild: whether the pre-flight test run is made
NeedsTestRun(command) ==
    Contains(command, "switch") /\ ~Contains(command, "test")

\* _validate_nixos_rebuild: test_command = command.replace('switch', 'test')
TestCommandOf(command) == Replace(command, "switch", "test")

\* _validate_nixos_rebuild: what it returns when the test run failed
TestFailed_Stdout(test_result) ==
    [success |-> FALSE,
     error |-> "NixOS configuration test failed",
     test_output |-> Get(test_result, "stdout", "")]

TestFailed(test_result) ==
    [success |-> FALSE,
     error |-> "NixOS configuration test failed",
     test_output |-> Get(test_result, "stderr", "")]

_validate_systemctl(command) ==
    IF Contains(command, "stop") /\ Contains(command, "nixos-ai")
    THEN [success |-> FALSE, error |-> "Cannot stop the AI assistant service"]
    ELSE [success |-> TRUE]

\* The commands run_command is called with
XCommands ==
    { "ls",
      "rm -rf /",
      "RM -RF /tmp/x",
      "echo hi | sh",
      "curl http://x | bash",
      "nixos-rebuild switch",
      "nixos-rebuild test",
      "nixos-rebuild switch --flake /etc/nixos#latest",
      "sudo nixos-rebuild switch",
      "nixos-rebuild switch && reboot",
      "systemctl stop nixos-ai",
      "systemctl restart nginx",
      "nix-env -i hello",
      "service nginx status",
      "Nixos-Rebuild switch",
      "shutdown now",
      "dd if=/dev/zero of=/dev/sda",
      "wget http://x -O- | sh",
      "wget http://x -O- | bash",
      "cat /etc/nixos/configuration.nix > /dev/null" }

ExitOutcomes == { "zero", "nonzero", "timeout", "exception" }
StderrTexts == { "", "error: syntax error" }

\* _execute_command's result.  An exception before create_subprocess_shell
\* (the log directory cannot be made) starts nothing.
_execute_command(command, timeout, outcome, stderr_text) ==
    CASE outcome \in { "zero", "nonzero" } ->
           [success |-> outcome = "zero", command |-> command,
            return_code |-> outcome, stdout |-> "stdout",
            stderr |-> stderr_text, log_file |-> "executor.log"]
      [] outcome = "timeout" ->
           [success |-> FALSE,
            error |-> "Command timed out after " \o timeout \o " seconds",
            command |-> command]
      [] OTHER -> [success |-> FALSE, error |-> "exception", command |-> command]

Started(ran, command, outcome) ==
    IF outcome = "exception" THEN ran
    ELSE Append(ran, [command |-> command, outcome |-> outcome])

\* Bound of the model: child processes left running at the same time
MaxOrphans == 1

\* How a child may end while Len(alive) children are still around
OutcomesWith(alive) ==
    IF Len(alive) < MaxOrphans THEN ExitOutcomes
    ELSE ExitOutcomes \ { "timeout" }

\* _execute_command: the children still running when it returns.  After
\* asyncio.TimeoutError the coroutine returns its error result; the child of
\* create_subprocess_shell is neither killed nor waited for.
LeftRunning(alive, command, outcome) ==
    IF outcome = "timeout" THEN Append(alive, command) ELSE alive

XUnchangedAgent == UNCHANGED <<agentVars, patcherVars, aiVars>>

\* run_command is called
XCall ==
    /\ xpc = "idle"
    /\ \E c \in XCommands : xcommand' = c
    /\ xpc' = "gate"
    /\ xvalidation' = None
    /\ xtest' = None
    /\ xran' = << >>
    /\ xresult' = None
    /\ UNCHANGED xalive
    /\ XUnchangedAgent

Blocked(command) ==
    [success |-> FALSE,
     error |-> "Command is considered dangerous and blocked",
     command |-> command]

\* run_command: the denylist, then whether validation is needed
XGate_ValidationFirst ==
    /\ xpc = "gate"
    /\ IF _requires_validation(xcommand)
       THEN xpc' = "validate" /\ UNCHANGED xresult
       ELSE IF _is_dangerous_command(xcommand)
       THEN xpc' = "returned" /\ xresult' = Blocked(xcommand)
       ELSE xpc' = "execute" /\ UNCHANGED xresult
    /\ UNCHANGED <<xcommand, xvalidation, xtest, xran, xalive>>
    /\ XUnchangedAgent

XGate ==
    /\ xpc = "gate"
    /\ IF _is_dangerous_command(xcommand)
       THEN xpc' = "returned" /\ xresult' = Blocked(xcommand)
       ELSE IF _requires_validation(xcommand)
       THEN xpc' = "validate" /\ UNCHANGED xresult
       ELSE xpc' = "execute" /\ UNCHANGED xresult
    /\ UNCHANGED <<xcommand, xvalidation, xtest, xran, xalive>>
    /\ XUnchangedAgent

\* run_command: validation_result = await self._validate_command(command),
\* with the pre-flight test run of _validate_nixos_rebuild
XValidate ==
    /\ xpc = "validate"
    /\ IF Contains(Lower(xcommand), "nixos-rebuild")
       THEN IF NeedsTestRun(xcommand)
            THEN \E outcome \in OutcomesWith(xalive), err \in StderrTexts :
                    LET test_result ==
                          _execute_command(TestCommandOf(xcommand), "600",
                                           outcome, err)
                    IN /\ xtest' = test_result
                       /\ xran' = Started(xran, TestCommandOf(xcommand), outcome)
                       /\ xalive' = LeftRunning(xalive, TestCommandOf(xcommand),
                                                outcome)
                       /\ xvalidation' = IF test_result.success
                                         THEN [success |-> TRUE]
                                         ELSE TestFailed(test_result)
            ELSE /\ xvalidation' = [success |-> TRUE]
                 /\ UNCHANGED <<xtest, xran, xalive>>
       ELSE IF Contains(Lower(xcommand), "systemctl")
       THEN /\ xvalidation' = _validate_systemctl(xcommand)
            /\ UNCHANGED <<xtest, xran, xalive>>
       ELSE /\ xvalidation' = [success |-> TRUE]
            /\ UNCHANGED <<xtest, xran, xalive>>
    /\ IF xvalidation'.success
       THEN xpc' = "execute" /\ UNCHANGED xresult
       ELSE xpc' = "returned" /\ xresult' = xvalidation'
    /\ UNCHANGED xcommand
    /\ XUnchangedAgent

\* run_command: result = await self._execute_command(command, timeout)
XExecute ==
    /\ xpc = "execute"
    /\ \E outcome \in OutcomesWith(xalive), err \in StderrTexts :
          /\ xresult' = _execute_command(xcommand, "300", outcome, err)
          /\ xran' = Started(xran, xcommand, outcome)
          /\ xalive' = LeftRunning(xalive, xcommand, outcome)
    /\ xpc' = "returned"
    /\ UNCHANGED <<xcommand, xvalidation, xtest>>
    /\ XUnchangedAgent

\* the caller takes the result
XReturn ==
    /\ xpc = "returned"
    /\ xpc' = "idle"
    /\ xcommand' = ""
    /\ xvalidation' = None
    /\ xtest' = None
    /\ xran' = << >>
    /\ xresult' = None
    /\ UNCHANGED xalive
    /\ XUnchangedAgent

\* a child that was left running ends by itself
XChildExits ==
    /\ \E i \in 1..Len(xalive) :
          xalive' = SubSeq(xalive, 1, i - 1) \o SubSeq(xalive, i + 1, Len(xalive))
    /\ UNCHANGED <<xpc, xcommand, xvalidation, xtest, xran, xresult>>
    /\ XUnchangedAgent

ExecInit ==
    /\ Init
    /\ config = [llm_provider |-> "openai", cache_enabled |-> TRUE]

ExecNext ==
    XCall \/ XGate \/ XValidate \/ XExecute \/ XReturn \/ XChildExits

SpecExec == ExecInit /\ [][ExecNext]_vars

(***************************************************************************)
(* decision_engine.py: classify_intent called directly, as process_message *)
(* calls it, one call at a time.                                           *)
(***************************************************************************)
\* The messages classify_intent is called with
DecisionMessages ==
    (Messages \ NotStr) \cup
    { "", "open", "search", "restart", "run start", "show display",
      "look find", "please open", "please can you open", "Could you launch",
      "open settings", "open install", "add vim then open it",
      "install and then open and show",
      "edit home.nix", "update Home.nix", "edit hardware-configuration.nix",
      "edit my-home.nix", "edit home.nix and configuration.nix",
      "set theme in desktop.nix laptop.nix",
      "INSTALL AND OPEN Firefox", "install then open firefox",
      "install then open firefox and vlc",
      "setup and start nginx after reboot",
      "add and launch vlc followed by mpv",
      "configure and run then show it" }

DUnchanged ==
    UNCHANGED <<patch, validation_result, apply_result, build_result,
                revert_result, last_commit, declarative_result, response,
                config, Llm, spawned, apply_calls, revert_calls, repoVars,
                patcherVars, execVars, aiVars>>

\* intent = await self.decision_engine.classify_intent(message) is reached
DCall(t) ==
    /\ running = {}
    /\ pc[t] = "recv"
    /\ received < MaxMessages
    /\ \E m \in DecisionMessages : message' = Set(message, t, m)
    /\ received' = received + 1
    /\ pc' = Set(pc, t, "classify_intent")
    /\ running' = {t}
    /\ UNCHANGED intent
    /\ DUnchanged

\* classify_intent runs and returns; it awaits nothing that suspends
DClassify(t) ==
    /\ Runs(t)
    /\ pc[t] = "classify_intent"
    /\ intent' = Set(intent, t, classify_intent(message[t]))
    /\ pc' = Set(pc, t, "classified")
    /\ running' = {t}
    /\ UNCHANGED <<received, message>>
    /\ DUnchanged

\* the caller has the intent
DReturn(t) ==
    /\ Runs(t)
    /\ pc[t] = "classified"
    /\ pc' = Set(pc, t, "recv")
    /\ message' = Set(message, t, "")
    /\ intent' = Set(intent, t, None)
    /\ running' = {}
    /\ UNCHANGED received
    /\ DUnchanged

DecisionInit ==
    /\ Init
    /\ config = [llm_provider |-> "openai", cache_enabled |-> TRUE]

DecisionNext == \E t \in Tasks : DCall(t) \/ DClassify(t) \/ DReturn(t)

SpecDecision == DecisionInit /\ [][DecisionNext]_vars

(***************************************************************************)
(* Properties of the declarative pipeline (Spec)                           *)
(***************************************************************************)
IsSet(x) == x # None

FailedBeforeApply(t) ==
    \/ patch[t] = UNABLE_TO_GENERATE_PATCH
    \/ IsSet(validation_result[t]) /\ ~validation_result[t].valid

BuildFailedAfterApply(t) ==
    /\ IsSet(apply_result[t]) /\ apply_result[t].success
    /\ IsSet(build_result[t]) /\ ~build_result[t].success

\* the handler has its result and is about to return it, or has returned
Concluded(t) == pc[t] \in { "decl_done", "respond", "run_command" }

\* C1: when generate_patch gives the sentinel or validate_patch says
\* valid=False, apply_patch is never called for that request, and no step of
\* the request, validation included, changes the working tree or the history.
C1_FailClosed ==
    /\ [](\A t \in Tasks : FailedBeforeApply(t) => apply_calls[t] = 0)
    /\ [][\A t \in Tasks :
            (running = {t} /\ (pc[t] \in { "check", "validate" }
                               \/ FailedBeforeApply(t)))
            => (tree' = tree /\ commits' = commits)]_vars

C1_Witness ==
    \E t \in Tasks :
        /\ pc[t] = "respond"
        /\ IsSet(validation_result[t]) /\ ~validation_result[t].valid
        /\ patch[t].kind = "diff"
        /\ apply_calls[t] = 0
        /\ HEAD > 1

\* C2: after a successful apply_patch and a failed or timed-out test_build the
\* handler has called revert_last_commit exactly once by the time it returns;
\* it never calls it otherwise, and never more than once.
C2_RevertExactlyOnce ==
    \A t \in Tasks :
        /\ revert_calls[t] <= 1
        /\ (Concluded(t) /\ BuildFailedAfterApply(t)) => revert_calls[t] = 1
        /\ revert_calls[t] > 0 => BuildFailedAfterApply(t)

C2_Witness ==
    \E t \in Tasks :
        /\ pc[t] = "respond"
        /\ BuildFailedAfterApply(t)
        /\ build_result[t] = test_build("timeout", "stdout", "stderr")
        /\ revert_calls[t] = 1

\* C3: when the automatic revert fails, the response differs from the one
\* given for a failed build whose revert succeeded.
C3_RevertFailureDistinct ==
    \A t \in Tasks :
        (pc[t] = "respond" /\ IsSet(revert_result[t])
         /\ ~revert_result[t].success)
        => response[t] # ResponseOf(t, BuildFailedResult(build_result[t]))

\* C4: at no moment are two tasks inside apply_patch or revert_last_commit.
InPatcherOp(t) == pc[t] \in { "apply_git", "apply_commit", "revert_git" }

C4_MutualExclusion ==
    Cardinality({ t \in Tasks : InPatcherOp(t) }) <= 1

C4_Witness ==
    \E t, u \in Tasks :
        /\ t # u
        /\ pc[t] = "apply_commit"
        /\ pc[u] = "llm_wait"

\* C5: while a pipeline is between its apply and the end of its build check and
\* rollback, no other pipeline is applying or reverting and HEAD is the commit
\* this pipeline made; the commit its rollback reverts is its own.
AfterApply(t) == pc[t] \in { "test_build", "revert", "revert_git" }

C5_RollbackOwnCommit ==
    \A t \in Tasks :
        AfterApply(t) =>
            /\ \A u \in Tasks \ {t} :
                  pc[u] \notin { "apply", "apply_git", "apply_commit",
                                 "test_build", "revert", "revert_git" }
            /\ HEAD = apply_result[t].commit_hash
            /\ pc[t] = "revert_git" => last_commit[t] = apply_result[t].commit_hash

C5_Witness ==
    \E t, u \in Tasks :
        /\ t # u
        /\ pc[t] = "revert_git"
        /\ pc[u] = "llm_wait"
        /\ last_commit[t] = apply_result[t].commit_hash

\* C6: no shell command started by the imperative branch contains a
\* denylisted destructive text such as "rm -rf /".
Denylisted(command) ==
    \E i \in 1..Len(dangerous_commands) :
        Contains(command, dangerous_commands[i])

C6_DenylistedNeverSpawned ==
    \A t \in Tasks :
        \A i \in 1..Len(spawned[t]) : ~Denylisted(spawned[t][i])

\* C10: in a hybrid request the imperative half is reached only after the
\* declarative half was generated, validated, applied and build-verified.
BuildVerified(t) ==
    /\ IsSet(patch[t]) /\ patch[t] # UNABLE_TO_GENERATE_PATCH
    /\ IsSet(validation_result[t]) /\ validation_result[t].valid
    /\ IsSet(apply_result[t]) /\ apply_result[t].success
    /\ IsSet(build_result[t]) /\ build_result[t].success
    /\ revert_calls[t] = 0

C10_ImperativeAfterBuildVerified ==
    \A t \in Tasks :
        (/\ Get(intent[t], "type", "") = "hybrid"
         /\ \/ pc[t] = "run_command"
            \/ spawned[t] # << >>
            \/ "imperative" \in DOMAIN response[t])
        => BuildVerified(t)

C10_Witness ==
    \E t \in Tasks :
        /\ Get(intent[t], "type", "") = "hybrid"
        /\ pc[t] = "respond"
        /\ spawned[t] # << >>

(***************************************************************************)
(* Properties of CommandExecutor.run_command (SpecExec)                    *)
(***************************************************************************)
ContainsDenylisted(command) ==
    \/ \E i \in 1..Len(dangerous_commands) :
          Contains(Lower(command), dangerous_commands[i])
    \/ \E i \in 1..Len(dangerous_patterns) :
          Contains(Lower(command), dangerous_patterns[i])

\* C7: for a command that contains a denylisted text, run_command starts no
\* subprocess at any point of the call, pre-flight run included, and returns
\* success=False with the blocked error.
C7_DenylistBeforeExecution ==
    ContainsDenylisted(xcommand) =>
        /\ xran = << >>
        /\ xpc = "returned" => xresult = Blocked(xcommand)

C7_Witness ==
    /\ xpc = "returned"
    /\ xcommand = "nixos-rebuild switch && reboot"
    /\ xresult = Blocked(xcommand)

\* C8: a switch invocation of nixos-rebuild is started only after its test
\* invocation was started in the same call and exited with zero.
IsSwitchInvocation(command) == StartsWith(command, "nixos-rebuild switch")

C8_SwitchOnlyAfterTest ==
    \A i \in 1..Len(xran) :
        (xran[i].command = xcommand /\ IsSwitchInvocation(xcommand))
        => \E j \in 1..(i - 1) :
              /\ xran[j].command = TestCommandOf(xcommand)
              /\ xran[j].outcome = "zero"

\* C9 as stated: when the pre-flight test run fails, the error of
\* run_command's result is the test run's stderr.
TestRunFailed ==
    /\ xpc = "returned"
    /\ IsSet(xtest) /\ ~xtest.success

Op(call) == Get(call, "op", "")

\* C11: a call of apply_patch that returns success=True adds exactly one
\* commit, whose parent is the HEAD from before the call, and returns the id
\* of that commit; a call that returns success=False adds no commit.
C11_OneCommitPerApply ==
    [][ Op(pcall') = "apply_patch" =>
          IF presult'.success
          THEN /\ Len(commits') = HEAD + 1
               /\ SubSeq(commits', 1, HEAD) = commits
               /\ commits'[HEAD + 1].parent = HEAD
               /\ presult'.commit_hash = HEAD + 1
          ELSE commits' = commits ]_vars

C11_Witness ==
    /\ Op(pcall) = "apply_patch"
    /\ presult.success
    /\ presult.commit_hash = HEAD
    /\ HEAD = 3
    /\ commits[HEAD].parent = 2

\* C12: a call of apply_patch that returns success=False leaves the working
\* tree as it was before the call.
C12_FailedApplyLeavesTree ==
    [][ Op(pcall') = "apply_patch" /\ ~presult'.success => tree' = tree ]_vars

\* C13: the history only grows: no call removes or rewrites a commit, and a
\* revert_last_commit that returns success=True adds exactly one commit, on
\* top of HEAD, whose tree is the tree HEAD's parent had.
C13_HistoryAppendOnly ==
    [][ /\ Len(commits') >= HEAD
        /\ SubSeq(commits', 1, HEAD) = commits
        /\ Op(pcall') = "revert_last_commit" /\ presult'.success =>
              /\ Len(commits') = HEAD + 1
              /\ commits'[HEAD + 1].parent = HEAD
              /\ commits'[HEAD + 1].tree = ParentTree(HEAD) ]_vars

C13_Witness ==
    /\ Op(pcall) = "revert_last_commit"
    /\ presult.success
    /\ HEAD = 3
    /\ commits[HEAD].message = "Revert"
    /\ commits[HEAD - 1].message = "ai: "
    /\ commits[HEAD].tree = commits[HEAD - 2].tree

\* C14: when apply_patch has returned success=True and revert_last_commit is
\* called next, the file the patch touched has its content from before the
\* apply again (unless git itself could not be run for the revert).
C14_ApplyRevertRoundTrip ==
    [][ /\ Op(pcall) = "apply_patch"
        /\ presult.success
        /\ Op(pcall') = "revert_last_commit"
        /\ (presult'.success \/ presult'.error # "exception")
        => tree'[pcall.patch.file] = pcall.patch.pre ]_vars

\* C15: validate_patch answers valid=False for a patch that applies cleanly
\* and leaves the file it names with a syntax error.
C15_SyntaxErrorRejected ==
    /\ Op(pcall) = "validate_patch"
    /\ AppliesCleanly(tree, pcall.patch)
    /\ ~NixParses(pcall.patch.post)
    => ~presult.valid

\* C16: for the sentinel and for an empty text validate_patch answers
\* valid=False and runs neither git apply --check nor nix-instantiate; and
\* nix-instantiate is run only after git apply --check has exited with zero.
C16_ChecksInOrder ==
    Op(pcall) = "validate_patch" =>
      /\ pcall.patch \in { UNABLE_TO_GENERATE_PATCH, EmptyPatch } =>
            ~presult.valid /\ pruns = << >>
      /\ \A i \in 1..Len(pruns) :
            pruns[i].tool = "nix-instantiate --parse" =>
               /\ i > 1
               /\ pruns[1].tool = "git apply --check"
               /\ pruns[1].returncode = "zero"

C16_Witness ==
    /\ Op(pcall) = "validate_patch"
    /\ pcall.patch = UNABLE_TO_GENERATE_PATCH
    /\ ~presult.valid
    /\ pruns = << >>
    /\ HEAD > 1

\* C17: validate_patch answers valid=False for a patch whose diff header
\* names a file that is not in the tree.
C17_AbsentFileRejected ==
    /\ Op(pcall) = "validate_patch"
    /\ pcall.patch.kind = "diff"
    /\ tree[pcall.patch.file] = "absent"
    => ~presult.valid

(***************************************************************************)
(* Properties of generate_patch (SpecLLM)                                  *)
(***************************************************************************)
KeyOf(t) ==
    _create_cache_key(Get(intent[t], "target_files", << >>), message[t])

\* C18: with the cache on, a call of generate_patch whose request an earlier
\* call has stored returns the stored text and sends nothing to the service,
\* whatever that text is (unless the call catches an exception).
C18_SecondCallServedFromCache ==
    [][ \A t \in Tasks :
          /\ pc[t] = "generate"
          /\ pc'[t] # "generate"
          /\ config.cache_enabled
          /\ KeyOf(t) \in DOMAIN cache
          /\ log'[t] = {}
          => /\ llm_calls' = llm_calls
             /\ patch'[t] = cache[KeyOf(t)] ]_vars

\* C19: generate_patch always returns, and what it returns is a patch text or
\* the sentinel, whatever fails in the service or in the cache.
C19_AlwaysTextOrSentinel ==
    \A t \in Tasks :
        /\ patch[t] \in LLMTexts \cup { None }
        /\ pc[t] = "check" => patch[t] \in LLMTexts

C19_Witness ==
    \E t \in Tasks :
        /\ pc[t] = "check"
        /\ log[t] = { "Error reading cache file", "OpenAI API error",
                      "Error caching result" }
        /\ patch[t] = UNABLE_TO_GENERATE_PATCH

(***************************************************************************)
(* Properties of CommandExecutor, continued (SpecExec)                     *)
(***************************************************************************)
\* C20: when run_command returns after one of its commands timed out, no
\* child process the call started is still running.
C20_NoChildAfterTimeout ==
    /\ xpc = "returned"
    /\ \E i \in 1..Len(xran) : xran[i].outcome = "timeout"
    => \A i \in 1..Len(xran), j \in 1..Len(xalive) :
          xalive[j] # xran[i].command

(***************************************************************************)
(* Properties of Executor.test_build (Spec)                                *)
(***************************************************************************)
\* the outcomes of the build tool that can have given the result b
OutcomesGiving(b) ==
    { o \in BuildOutcomes :
        \E stderr \in BuildStderr : b = test_build(o, "stdout", stderr) }

\* C21: the result of test_build tells which of exit code 0, a nonzero exit
\* and the timeout has happened: exit code 0 gives success=True with the
\* captured stdout, a nonzero exit gives success=False with the captured
\* stderr and stdout, the timeout gives success=False with a fixed error and
\* no output, and no result is given by two of these outcomes.
C21_BuildOutcomesDistinct ==
    \A t \in Tasks :
        IsSet(build_result[t]) =>
            LET b == build_result[t]
            IN /\ Cardinality(OutcomesGiving(b)) = 1
               /\ "success" \in OutcomesGiving(b) =>
                     b.success /\ b.output = "stdout"
               /\ "failed" \in OutcomesGiving(b) =>
                     /\ ~b.success
                     /\ b.error \in BuildStderr
                     /\ b.output = "stdout"
               /\ "timeout" \in OutcomesGiving(b) =>
                     /\ ~b.success
                     /\ b.error = "Build test timed out after 30 minutes"
                     /\ "output" \notin DOMAIN b

C21_Witness ==
    \E t \in Tasks :
        /\ pc[t] = "respond"
        /\ IsSet(build_result[t])
        /\ OutcomesGiving(build_result[t]) = { "failed" }
        /\ build_result[t].error = "Build test timed out after 30 minutes"

(***************************************************************************)
(* Properties of process_message and its handlers (Spec)                   *)
(***************************************************************************)
\* C22: whatever the message and whatever the collaborators do, what
\* process_message hands back is a response whose status is 'success' or
\* 'error'; a message whose classification raises is answered so as well.
C22_AlwaysStructuredResponse ==
    \A t \in Tasks :
        /\ pc[t] = "respond" =>
              /\ IsSet(response[t])
              /\ Get(response[t], "status", "") \in { "success", "error" }
        /\ IsSet(response[t]) => "status" \in DOMAIN response[t]

C22_Witness ==
    \E t \in Tasks :
        /\ pc[t] = "respond"
        /\ message[t] \in NotStr
        /\ response[t].status = "error"
        /\ response[t].intent = [type |-> "error"]

\* C23: the error of a response does not carry the text of an exception
\* raised inside the agent: a response is the same whatever that text was.
C23_FaultDetailNotInResponse ==
    \A t \in Tasks :
        pc[t] = "respond" =>
            \A e \in FaultDetails :
                ~Contains(Get(response[t], "error", ""), e)

\* C24: the response to a declarative request has status 'success' exactly
\* when the patch was generated, validated, applied and build-verified, and
\* it then carries the id of the commit apply_patch made; when the build check
\* fails after a successful apply the status is 'error' and the response
\* carries the suggestion of the fallback installation methods.
C24_SuccessIffAllStagesPassed ==
    \A t \in Tasks :
        (pc[t] = "respond" /\ Get(intent[t], "type", "") = "declarative") =>
            /\ response[t].status = "success" <=> BuildVerified(t)
            /\ response[t].status = "success" =>
                  /\ response[t].commit_hash = apply_result[t].commit_hash
                  /\ response[t].commit_hash \in 2..HEAD
                  /\ commits[response[t].commit_hash].message = "ai: "
            /\ BuildFailedAfterApply(t) =>
                  /\ response[t].status = "error"
                  /\ "suggestion" \in DOMAIN response[t]
                  /\ response[t].suggestion =
                        "Consider using fallback installation methods"

C24_Witness ==
    \E t \in Tasks :
        /\ pc[t] = "respond"
        /\ Get(intent[t], "type", "") = "declarative"
        /\ BuildFailedAfterApply(t)
        /\ IsSet(revert_result[t]) /\ revert_result[t].success
        /\ response[t].status = "error"
        /\ "suggestion" \in DOMAIN response[t]

\* C25: a message classified as unknown is answered at once with status
\* 'error': the request never reaches generate_patch, apply_patch,
\* revert_last_commit or run_command, and no step of it sends a request to
\* the text-generation service or changes the repository or the cache.
UnknownNow(t) ==
    \/ Get(intent[t], "type", "") = "unknown"
    \/ /\ pc[t] = "classify"
       /\ ~classify_intent_raises(message[t])
       /\ classify_intent(message[t]).type = "unknown"

C25_UnknownIsTerminal ==
    /\ [](\A t \in Tasks :
            Get(intent[t], "type", "") = "unknown" =>
                /\ pc[t] = "respond"
                /\ response[t].status = "error"
                /\ response[t].error = "Unknown intent type: unknown"
                /\ patch[t] = None
                /\ spawned[t] = << >>
                /\ apply_calls[t] = 0
                /\ revert_calls[t] = 0)
    /\ [][\A t \in Tasks :
            (running = {t} /\ UnknownNow(t)) =>
                /\ llm_calls' = llm_calls
                /\ cache' = cache
                /\ <<tree, index, commits>>' = <<tree, index, commits>>]_vars

C25_Witness ==
    \E t \in Tasks :
        /\ pc[t] = "respond"
        /\ message[t] = "hello"
        /\ intent[t] = classify_intent("hello")
        /\ response[t].status = "error"
        /\ llm_calls > 0
        /\ HEAD > 1

(***************************************************************************)
(* Properties of DecisionEngine.classify_intent (SpecDecision)             *)
(***************************************************************************)
Classified(t) == pc[t] = "classified"

HasHybridPhrase(msg) ==
    \E i \in 1..Len(hybrid_keywords) : Contains(Lower(msg), hybrid_keywords[i])

ImperativeScore(msg) == _calculate_score(Lower(msg), imperative_keywords)

DeclarativeScore(msg) == _calculate_score(Lower(msg), declarative_keywords)

\* C26: for a message with no hybrid phrase the strictly higher nonzero
\* score decides between imperative and declarative, and every other case,
\* equal scores included, is unknown with confidence 0.1.
C26_StrictlyHigherScoreWins ==
    \A t \in Tasks :
        (Classified(t) /\ ~HasHybridPhrase(message[t])) =>
            LET imp == ImperativeScore(message[t])
                dec == DeclarativeScore(message[t])
            IN /\ intent[t].type = "imperative" => (imp > 0 /\ imp > dec)
               /\ intent[t].type = "declarative" => (dec > 0 /\ dec > imp)
               /\ (~(imp > 0 /\ imp > dec) /\ ~(dec > 0 /\ dec > imp)) =>
                     /\ intent[t].type = "unknown"
                     /\ intent[t].confidence = "0.1"

\* Python's s.split(): the words of s between its spaces
RECURSIVE Words(_)
Words(s) ==
    LET t == LStrip(s)
        i == Find(t, " ")
    IN IF t = "" THEN << >>
       ELSE IF i = 0 THEN << t >>
       ELSE << SubSeq(t, 1, i - 1) >> \o Words(SubSeq(t, i + 1, Len(t)))

ImperativeVocabularyOnly(msg) ==
    /\ Words(msg) # << >>
    /\ \A i \in 1..Len(Words(msg)) :
          \E k \in 1..Len(imperative_keywords) :
              Words(msg)[i] = imperative_keywords[k]

\* the text with every polite-request prefix taken off its front
RECURSIVE WithoutPrefixes(_)
WithoutPrefixes(s) ==
    LET hits == { i \in 1..Len(prefixes) : StartsWith(s, prefixes[i]) }
    IN IF hits = {} THEN s
       ELSE LET i == CHOOSE j \in hits : TRUE
            IN WithoutPrefixes(Strip(SubSeq(s, Len(prefixes[i]) + 1, Len(s))))

\* C27: a message made only of imperative keywords is classified as
\* imperative, and its command is the message without polite-request
\* prefixes.
C27_ImperativeVocabulary ==
    \A t \in Tasks :
        (Classified(t) /\ ImperativeVocabularyOnly(message[t])) =>
            /\ intent[t].type = "imperative"
            /\ intent[t].command = WithoutPrefixes(message[t])

C27_Witness ==
    \E t \in Tasks :
        /\ Classified(t)
        /\ message[t] = "show display"
        /\ ImperativeVocabularyOnly(message[t])
        /\ ImperativeScore(message[t]) = 3
        /\ intent[t].type = "imperative"
        /\ intent[t].command = "show display"

\* C28: a message whose lowercased text contains a hybrid phrase is
\* classified as hybrid whatever its two scores are; "install and open
\* firefox" is.
C28_HybridPhraseWins ==
    /\ classify_intent("install and open firefox").type = "hybrid"
    /\ \A t \in Tasks :
          (Classified(t) /\ HasHybridPhrase(message[t])) =>
              intent[t].type = "hybrid"

C28_Witness ==
    \E t \in Tasks :
        /\ Classified(t)
        /\ message[t] = "configure and run then show it"
        /\ ImperativeScore(message[t]) > DeclarativeScore(message[t])
        /\ intent[t].type = "hybrid"

\* the connectives that occur in the lowercased text, by their number
ConnectivesIn(low) ==
    { i \in 1..Len(conjunctions) : Contains(low, conjunctions[i]) }

\* the connective that occurs first in the text
LeftmostConnective(low) ==
    conjunctions[CHOOSE i \in ConnectivesIn(low) :
                    \A j \in ConnectivesIn(low) :
                        Find(low, conjunctions[i]) <= Find(low, conjunctions[j])]

\* C29: a hybrid message is split at the connective that occurs first in
\* it: the declarative part is the text before that connective and the
\* imperative part is all the text after it.
C29_SplitAtLeftmostConnective ==
    \A t \in Tasks :
        (/\ Classified(t)
         /\ intent[t].type = "hybrid"
         /\ ConnectivesIn(Lower(message[t])) # {}) =>
            LET low == Lower(message[t])
                c == LeftmostConnective(low)
                at == Find(low, c)
            IN /\ intent[t].declarative_part = Strip(SubSeq(low, 1, at - 1))
               /\ intent[t].imperative_part =
                     Strip(SubSeq(low, at + Len(c), Len(low)))

\* the known configuration files that are words of the message
FilesNamedIn(msg) ==
    { "/etc/nixos/" \o config_files[i] : i \in
        { k \in 1..Len(config_files) :
            \E w \in 1..Len(Words(Lower(msg))) :
                Words(Lower(msg))[w] = config_files[k] } }

\* C30: the target_files of a declarative intent are never empty: they are
\* the known configuration files the message names, or configuration.nix
\* alone when it names none.
C30_TargetFilesAreFilesNamed ==
    \A t \in Tasks :
        (Classified(t) /\ intent[t].type = "declarative") =>
            LET target_files == intent[t].target_files
                named == FilesNamedIn(message[t])
            IN /\ target_files # << >>
               /\ { target_files[i] : i \in 1..Len(target_files) } =
                     (IF named = {} THEN { "/etc/nixos/configuration.nix" }
                      ELSE named)

(***************************************************************************)
(* Properties of CommandExecutor.run_command, continued (SpecExec)         *)
(***************************************************************************)
\* the command pipes what curl or wget fetches into sh or bash
PipesDownloadIntoShell(command) ==
    /\ \/ Contains(Lower(command), "curl ")
       \/ Contains(Lower(command), "wget ")
    /\ \/ Contains(Lower(command), "| sh")
       \/ Contains(Lower(command), "| bash")

\* C31: for a command that pipes a remote download into a shell,
\* run_command starts no subprocess and returns the blocked error.
C31_DownloadPipedToShellDenied ==
    PipesDownloadIntoShell(xcommand) =>
        /\ xran = << >>
        /\ xpc = "returned" => xresult = Blocked(xcommand)

(***************************************************************************)
(* Properties of the declarative pipeline, continued (Spec)                *)
(***************************************************************************)
\* C34: when the pipeline's revert has succeeded, every file is as it was
\* just before apply_patch: the file the patch touched has the content the
\* patch started from, and every other file, which apply_patch's git apply
\* did not write, has the content it had, uncommitted changes included.
C34_RollbackRestoresEveryFile ==
    [][\A t \in Tasks :
          (/\ pc[t] = "revert_git"
           /\ pc'[t] = "decl_done"
           /\ revert_result'[t].success) =>
              \A f \in Files :
                  tree'[f] = IF f = patch[t].file THEN patch[t].pre
                             ELSE tree[f]]_vars

(***************************************************************************)
(* Properties of generate_patch, continued (SpecLLM)                       *)
(***************************************************************************)
\* C35: the cache never holds the sentinel, so a request whose call of the
\* service failed is sent to the service again by the next call.
C35_SentinelNeverCached ==
    \A cache_key \in DOMAIN cache :
        cache[cache_key] # UNABLE_TO_GENERATE_PATCH

(***************************************************************************)
(* Properties of the hybrid pipeline (Spec)                                *)
(***************************************************************************)
IsHybrid(t) == Get(intent[t], "type", "") = "hybrid"

\* C36: for a hybrid intent generate_patch is called with a non-empty list
\* of target files, and the command the imperative half runs is the
\* imperative part of the split, not the whole message.
C36_HybridUsesItsParts ==
    \A t \in Tasks :
        IsHybrid(t) =>
            /\ pc[t] \in { "generate", "llm_wait", "check" } =>
                  KeyOf(t).target_files # << >>
            /\ \A i \in 1..Len(spawned[t]) :
                  spawned[t][i] = "sudo " \o intent[t].imperative_part

\* C37: the response to a hybrid request has status 'success' only if the
\* command of the imperative half succeeded as well; when that command
\* fails or times out the status is 'error'.
C37_HybridFailsWithItsCommand ==
    \A t \in Tasks :
        (/\ IsHybrid(t)
         /\ pc[t] = "respond"
         /\ "imperative" \in DOMAIN response[t]
         /\ response[t].imperative.status = "error") =>
            response[t].status = "error"

(***************************************************************************)
(* src/ai/editor.py: FileEditor                                            *)
(***************************************************************************)
\* Bound of the model: calls of FileEditor methods in one run
MaxEdits == 1

\* The path taken as it was given
resolve_NotResolved(p) == p

\* pathlib: Path(p).resolve() folds ".." and follows symbolic links
RECURSIVE resolve_from(_, _)
resolve_from(done, rest) ==
    IF rest = << >> THEN done
    ELSE IF Head(rest) = ".."
    THEN resolve_from(SubSeq(done, 1, Len(done) - 1), Tail(rest))
    ELSE IF Append(done, Head(rest)) \in DOMAIN Symlinks
    THEN resolve_from(<< >>, Symlinks[Append(done, Head(rest))] \o Tail(rest))
    ELSE resolve_from(Append(done, Head(rest)), Tail(rest))

resolve(p) == resolve_from(<< >>, p)

\* pathlib: p.is_relative_to(base)
is_relative_to(p, base) ==
    Len(base) <= Len(p) /\ SubSeq(p, 1, Len(base)) = base

\* pathlib: str(p)
RECURSIVE str_path(_)
str_path(p) ==
    IF p = << >> THEN "" ELSE "/" \o Head(p) \o str_path(Tail(p))

\* pathlib: p.name
name_of(p) == IF p = << >> THEN "" ELSE p[Len(p)]

\* 0 when c does not occur in s, else the index of its last occurrence
RFind(s, c) ==
    IF Contains(s, c)
    THEN CHOOSE i \in 1..Len(s) :
            /\ SubSeq(s, i, i + Len(c) - 1) = c
            /\ \A j \in (i + 1)..Len(s) : SubSeq(s, j, j + Len(c) - 1) # c
    ELSE 0

\* pathlib: p.suffix
suffix(p) ==
    LET name == name_of(p)
        i == RFind(name, ".")
    IN IF 1 < i /\ i < Len(name) THEN SubSeq(name, i, Len(name)) ELSE ""

\* The paths FileEditor is called with: ai_dir/../../passwd is /etc/passwd,
\* ai_dir/missing.nix does not exist
Traversal == ai_dir \o << "..", "..", "passwd" >>
Missing == ai_dir \o << "missing.nix" >>

EditorPaths ==
    { TestNix, NotesTxt, Passwd, OldConfiguration, LinkInAiDir, Traversal,
      Missing }

\* The file the operating system reaches when the path p is opened
FileAt(p) ==
    CASE p = LinkInAiDir -> Passwd
      [] p = Traversal -> Passwd
      [] OTHER -> p

_is_path_allowed(cfg, file_path) ==
    \/ cfg.enable_system_wide_access
    \/ \E i \in 1..Len(cfg.allowed_paths) :
          is_relative_to(file_path, resolve(cfg.allowed_paths[i]))

_is_nix_file(file_path) ==
    \/ suffix(file_path) = ".nix"
    \/ \E i \in 1..Len(file_path) : Contains(file_path[i], "configuration.nix")

\* `change in content`, for a change that has no line break
InContent(change, content) ==
    \E i \in 1..Len(content) : Contains(content[i], change)

\* '\n'.join(lines), as the lines of the text it makes
join(lines) == IF lines = << >> THEN << "" >> ELSE lines

\* _handle_imports: the loop that looks for the imports section; 0 stands
\* for the -1 of the code
RECURSIVE imports_scan(_, _, _)
imports_scan(lines, i, imports_start) ==
    IF i > Len(lines) THEN << imports_start, 0 >>
    ELSE IF Contains(lines[i], "imports = [")
    THEN imports_scan(lines, i + 1, i)
    ELSE IF imports_start # 0 /\ Strip(lines[i]) = "];"
    THEN << imports_start, i >>
    ELSE imports_scan(lines, i + 1, imports_start)

_handle_imports(lines, import_line) ==
    LET found == imports_scan(lines, 1, 0)
        imports_end == found[2]
    IN IF found[1] # 0 /\ imports_end # 0
       THEN SubSeq(lines, 1, imports_end - 1) \o << "  " \o import_line >>
            \o SubSeq(lines, imports_end, Len(lines))
       ELSE << "imports = [ " \o import_line \o " ];" >> \o lines

\* _apply_nix_changes: the loop over the changes
RECURSIVE nix_new_lines(_, _)
nix_new_lines(new_lines, changes) ==
    IF changes = << >> THEN new_lines
    ELSE LET change == Head(changes)
         IN nix_new_lines(
              IF StartsWith(Strip(change), "#") THEN Append(new_lines, change)
              ELSE IF Contains(change, "=")
                      /\ ~StartsWith(Strip(change), "imports")
              THEN Append(new_lines, change)
              ELSE IF StartsWith(Strip(change), "imports")
              THEN _handle_imports(new_lines, change)
              ELSE Append(new_lines, change),
              Tail(changes))

_apply_nix_changes(content, changes) ==
    LET new_lines == nix_new_lines(<< >>, changes)
    IN join(IF ~\E i \in 1..Len(changes) : InContent(changes[i], content)
            THEN new_lines \o changes
            ELSE new_lines)

RECURSIVE _apply_generic_changes(_, _)
_apply_generic_changes(content, changes) ==
    IF changes = << >> THEN join(content)
    ELSE _apply_generic_changes(
           IF \E i \in 1..Len(content) : content[i] = Head(changes)
           THEN content ELSE Append(content, Head(changes)),
           Tail(changes))

\* How nix-instantiate --parse may end
ValidationOutcomes == { "ok", "syntax error", "timeout", "exception" }

_validate_nix_file(outcome) ==
    CASE outcome = "ok" -> [success |-> TRUE]
      [] outcome = "syntax error" ->
           [success |-> FALSE, error |-> "Nix syntax error: stderr"]
      [] outcome = "timeout" ->
           [success |-> FALSE, error |-> "Nix validation timeout"]
      [] OTHER -> [success |-> FALSE, error |-> "Validation error: exception"]

_validate_changes(file_path, outcome) ==
    IF _is_nix_file(file_path) THEN _validate_nix_file(outcome)
    ELSE [success |-> TRUE]

\* What the operating system may do during one call of apply_changes:
\* shutil.copy2 of the backup, the read, nix-instantiate, open(.., 'w')
\* and the write that follows it, the copy back, git add and git commit.
\* At most one of them goes wrong in a call, and the copy back can fail
\* after a validation that failed.
IoFaults ==
    { "none", "backup fails", "read fails", "syntax error", "timeout",
      "exception", "open fails", "write fails", "commit fails",
      "syntax error, restore fails" }

IoOutcome(fault) ==
    [backup |-> IF fault = "backup fails" THEN "fails" ELSE "ok",
     read |-> IF fault = "read fails" THEN "fails" ELSE "ok",
     validation |-> IF fault \in { "syntax error", "timeout", "exception" }
                    THEN fault
                    ELSE IF fault = "syntax error, restore fails"
                    THEN "syntax error" ELSE "ok",
     write |-> IF fault \in { "open fails", "write fails" } THEN fault ELSE "ok",
     restore |-> IF fault = "syntax error, restore fails" THEN "fails" ELSE "ok",
     commit |-> IF fault = "commit fails" THEN "fails" ELSE "ok"]

IoOutcomes == { IoOutcome(fault) : fault \in IoFaults }

\* open(file_path, 'w') has emptied the file when a later write fails
Truncated == << "" >>

\* _apply_file_changes: its result and the files it leaves
_apply_file_changes(fsys, cfg, file_path, changes, io) ==
    LET f == FileAt(file_path)
        content == fsys[f]
        new_content == IF _is_nix_file(file_path)
                       THEN _apply_nix_changes(content, changes)
                       ELSE _apply_generic_changes(content, changes)
        validation == _validate_changes(file_path, io.validation)
    IN IF io.read = "fails"
       THEN [result |-> [error |-> "read error"], fs |-> fsys]
       ELSE IF cfg.validation_required /\ ~validation.success
       THEN [result |-> validation, fs |-> fsys]
       ELSE CASE io.write = "ok" ->
                   [result |-> [success |-> TRUE],
                    fs |-> [fsys EXCEPT ![f] = new_content]]
              [] io.write = "open fails" ->
                   [result |-> [error |-> "[Errno 13] Permission denied"],
                    fs |-> fsys]
              [] OTHER ->
                   [result |-> [error |-> "[Errno 28] No space left on device"],
                    fs |-> [fsys EXCEPT ![f] = Truncated]]

\* _create_backup: the name of the backup in ai_dir/backups (the
\* modification time that ends the name is left out)
backup_name(file_path) == name_of(file_path) \o ".backup"

\* _restore_backup, whose own failure is logged and dropped
_restore_backup(fsys, file_path, backup, outcome) ==
    IF outcome = "ok" THEN [fsys EXCEPT ![FileAt(file_path)] = backup]
    ELSE fsys

\* apply_changes: its result, and the files, backups and commits it leaves
apply_changes(fsys, backups, git, cfg, path, changes, io) ==
    LET file_path == resolve(path)
        f == FileAt(file_path)
        same == [fs |-> fsys, backups |-> backups, git |-> git]
    IN IF ~_is_path_allowed(cfg, file_path)
       THEN same @@ [result |-> [error |-> "Path not allowed: "
                                           \o str_path(file_path)]]
       ELSE IF f \notin DOMAIN fsys
       THEN same @@ [result |-> [error |-> "File does not exist: "
                                           \o str_path(file_path)]]
       ELSE IF io.backup = "fails"
       THEN same @@ [result |-> [error |-> "backup error"]]
       ELSE LET backup_path == backup_name(file_path)
                kept == IF backup_path \in DOMAIN backups
                        THEN [backups EXCEPT ![backup_path] = fsys[f]]
                        ELSE backups @@ (backup_path :> fsys[f])
                applied == _apply_file_changes(fsys, cfg, file_path, changes, io)
            IN IF "success" \notin DOMAIN applied.result
               THEN [result |-> [error |-> "'success'"],
                     fs |-> applied.fs, backups |-> kept, git |-> git]
               ELSE IF applied.result.success
               THEN [result |-> [success |-> TRUE,
                                 file |-> str_path(file_path),
                                 changes |-> changes,
                                 backup |-> backup_path],
                     fs |-> applied.fs,
                     backups |-> kept,
                     git |-> IF cfg.auto_commit /\ io.commit = "ok"
                             THEN git \cup { f } ELSE git]
               ELSE [result |-> applied.result,
                     fs |-> _restore_backup(applied.fs, file_path, kept[backup_path],
                                            io.restore),
                     backups |-> kept, git |-> git]

\* get_file_content: its result
get_file_content(fsys, cfg, path, read) ==
    LET file_path == resolve(path)
    IN IF ~_is_path_allowed(cfg, file_path)
       THEN [error |-> "Path not allowed: " \o str_path(file_path)]
       ELSE IF FileAt(file_path) \notin DOMAIN fsys
       THEN [error |-> "File does not exist: " \o str_path(file_path)]
       ELSE IF read = "fails" THEN [error |-> "read error"]
       ELSE [success |-> TRUE, content |-> fsys[FileAt(file_path)],
             file |-> str_path(file_path)]

\* The lists of changes apply_changes is called with
ChangeLists ==
    { << >>,
      << "services.vscode.enable = true;" >>,
      << "services.docker.enable = true;" >>,
      << "# note", "# note" >>,
      << "imports = [", "];", "imports ./extra.nix" >> }

\* The configurations a FileEditor is made with
EditorConfigs ==
    [allowed_paths : { << ai_dir >> },
     enable_system_wide_access : BOOLEAN,
     auto_commit : BOOLEAN,
     validation_required : BOOLEAN]

EUnchanged == UNCHANGED <<agentVars, patcherVars, execVars, handlerVars, daemonVars>>

\* editor.apply_changes(file_path, changes) is called and returns
EApplyChanges ==
    /\ ecalls < MaxEdits
    /\ \E path \in EditorPaths, changes \in ChangeLists, io \in IoOutcomes :
          LET r == apply_changes(efs, ebackups, egit, econfig, path, changes, io)
          IN /\ ecall' = [method |-> "apply_changes", file_path |-> path,
                          changes |-> changes]
             /\ eresult' = r.result
             /\ efs' = r.fs
             /\ ebackups' = r.backups
             /\ egit' = r.git
    /\ ecalls' = ecalls + 1
    /\ UNCHANGED econfig
    /\ EUnchanged

\* editor.get_file_content(file_path) is called and returns
EGetFileContent ==
    /\ ecalls < MaxEdits
    /\ \E path \in EditorPaths, read \in { "ok", "fails" } :
          /\ ecall' = [method |-> "get_file_content", file_path |-> path]
          /\ eresult' = get_file_content(efs, econfig, path, read)
    /\ ecalls' = ecalls + 1
    /\ UNCHANGED <<efs, ebackups, egit, econfig>>
    /\ EUnchanged

EditorInit ==
    /\ AgentInit /\ PatcherIdle /\ ExecIdle /\ HandlerIdle /\ DaemonIdle
    /\ config = [llm_provider |-> "openai", cache_enabled |-> TRUE]
    /\ EditorFresh
    /\ econfig \in EditorConfigs

EditorNext == EApplyChanges \/ EGetFileContent

SpecEditor == EditorInit /\ [][EditorNext]_vars

(***************************************************************************)
(* Properties of FileEditor                                                *)
(***************************************************************************)
\* The file f lies under one of the allowed paths of cfg
UnderAllowed(cfg, f) ==
    \E i \in 1..Len(cfg.allowed_paths) :
        is_relative_to(f, cfg.allowed_paths[i])

\* A call of a FileEditor method is made in this step
EditorCalled == ecalls' = ecalls + 1

\* C33: with system-wide access disabled, apply_changes and
\* get_file_content succeed only for a path that lies under one of the
\* allowed paths; for any other path the call returns an error, makes no
\* backup and changes no file
C33_OnlyAllowedPaths ==
    [][(/\ EditorCalled
        /\ ~econfig.enable_system_wide_access
        /\ ~UnderAllowed(econfig, FileAt(ecall'.file_path)))
       => /\ "error" \in DOMAIN eresult'
          /\ "success" \notin DOMAIN eresult'
          /\ efs' = efs
          /\ ebackups' = ebackups]_vars

C33_Witness ==
    /\ ~econfig.enable_system_wide_access
    /\ ecall # None
    /\ ecall.method = "apply_changes"
    /\ ecall.file_path = LinkInAiDir
    /\ eresult = [error |-> "Path not allowed: /etc/passwd"]
    /\ efs = InitialFiles
    /\ ebackups = NoFiles

\* The lines of a sequence
LinesOf(content) == { content[i] : i \in 1..Len(content) }

\* C38: after apply_changes succeeded the file holds all the lines it had,
\* followed by each requested change that was not among them, once each
C38_ChangesAddedOncePreserving ==
    [][(/\ EditorCalled
        /\ ecall'.method = "apply_changes"
        /\ Get(eresult', "success", FALSE))
       => LET f == FileAt(ecall'.file_path)
              before == efs[f]
              after == efs'[f]
              added == SubSeq(after, Len(before) + 1, Len(after))
          IN /\ Len(after) >= Len(before)
             /\ SubSeq(after, 1, Len(before)) = before
             /\ LinesOf(added) = LinesOf(ecall'.changes) \ LinesOf(before)
             /\ Len(added) = Cardinality(LinesOf(added))]_vars

\* C39: whenever apply_changes returns something other than a success, the
\* content of the target file is what it was before the call
C39_FailureLeavesFileAsItWas ==
    [][(/\ EditorCalled
        /\ ecall'.method = "apply_changes"
        /\ ~Get(eresult', "success", FALSE))
       => efs' = efs]_vars

(***************************************************************************)
(* src/ai/agent.py: NixOSAIAgent._handle_file_edit, with the FileEditor    *)
(* and the CommandExecutor it calls                                        *)
(***************************************************************************)
\* NixOSAIAgent._is_path_allowed
agent_is_path_allowed(cfg, path) ==
    \/ cfg.enable_system_wide_access
    \/ \E i \in 1..Len(cfg.allowed_paths) :
          is_relative_to(resolve(path), resolve(cfg.allowed_paths[i]))

\* The actions _handle_file_edit is called with
HandlerActions ==
    { [action |-> "edit_file", changes |-> << "# note" >>],
      [action |-> "edit_file", file |-> TestNix,
       changes |-> << "services.vscode.enable = true;" >>,
       commands |-> << "nixos-rebuild switch" >>],
      [action |-> "edit_file", file |-> Missing,
       changes |-> << "services.vscode.enable = true;" >>,
       commands |-> << "nixos-rebuild switch" >>],
      [action |-> "edit_file", file |-> Passwd,
       changes |-> << "# note" >>,
       commands |-> << "ls" >>],
      [action |-> "edit_file", file |-> NotesTxt,
       changes |-> << "# note", "# note" >>],
      [action |-> "edit_file", file |-> NotesTxt,
       changes |-> << "# note" >>,
       commands |-> << "ls", "systemctl restart nginx" >>] }

HUnchanged == UNCHANGED <<agentVars, patcherVars, daemonVars>>

\* _handle_file_edit(action) is called and runs up to its first await:
\* the two early returns, then editor.apply_changes
HCall ==
    /\ hpc = "idle"
    /\ ecalls < MaxEdits
    /\ \E action \in HandlerActions, io \in IoOutcomes :
          LET file_path == Get(action, "file", None)
              changes == Get(action, "changes", << >>)
              r == apply_changes(efs, ebackups, egit, econfig, file_path,
                                 changes, io)
          IN /\ haction' = action
             /\ hran' = << >>
             /\ IF file_path = None
                THEN /\ hreturn' = [error |-> "No file specified"]
                     /\ hpc' = "returned"
                     /\ hedit' = None
                     /\ hqueue' = << >>
                     /\ UNCHANGED <<efs, ebackups, egit, ecalls, ecall, eresult>>
                ELSE IF ~agent_is_path_allowed(econfig, file_path)
                THEN /\ hreturn' = [error |-> "Path not allowed: "
                                              \o str_path(file_path)]
                     /\ hpc' = "returned"
                     /\ hedit' = None
                     /\ hqueue' = << >>
                     /\ UNCHANGED <<efs, ebackups, egit, ecalls, ecall, eresult>>
                ELSE /\ ecall' = [method |-> "apply_changes",
                                  file_path |-> file_path, changes |-> changes]
                     /\ ecalls' = ecalls + 1
                     /\ eresult' = r.result
                     /\ efs' = r.fs
                     /\ ebackups' = r.backups
                     /\ egit' = r.git
                     /\ hedit' = r.result
                     /\ hqueue' = Get(action, "commands", << >>)
                     /\ hreturn' = None
                     /\ hpc' = "commands"
    /\ UNCHANGED <<econfig, execVars>>
    /\ HUnchanged

\* for cmd in commands: cmd_result = await self.executor.run_command(cmd)
HRunCommand ==
    /\ hpc = "commands"
    /\ hqueue # << >>
    /\ xpc = "idle"
    /\ xcommand' = Head(hqueue)
    /\ xpc' = "gate"
    /\ xvalidation' = None
    /\ xtest' = None
    /\ xran' = << >>
    /\ xresult' = None
    /\ hran' = Append(hran, Head(hqueue))
    /\ hqueue' = Tail(hqueue)
    /\ UNCHANGED <<xalive, hpc, haction, hedit, hreturn, editorVars>>
    /\ HUnchanged

\* run_command has returned: if not cmd_result["success"]: return {...}
HCommandDone ==
    /\ hpc = "commands"
    /\ xpc = "returned"
    /\ IF xresult.success
       THEN UNCHANGED <<hpc, hreturn>>
       ELSE /\ hreturn' = [error |-> "Command failed: " \o xcommand,
                           details |-> xresult]
            /\ hpc' = "returned"
    /\ xpc' = "idle"
    /\ xcommand' = ""
    /\ xvalidation' = None
    /\ xtest' = None
    /\ xresult' = None
    /\ UNCHANGED <<xran, xalive, haction, hedit, hqueue, hran, editorVars>>
    /\ HUnchanged

\* return result, after the last command
HReturn ==
    /\ hpc = "commands"
    /\ hqueue = << >>
    /\ xpc = "idle"
    /\ hreturn' = hedit
    /\ hpc' = "returned"
    /\ UNCHANGED <<haction, hedit, hqueue, hran, editorVars, execVars>>
    /\ HUnchanged

\* _execute_action hands the result to its caller
HTaken ==
    /\ hpc = "returned"
    /\ hpc' = "idle"
    /\ haction' = None
    /\ hedit' = None
    /\ hqueue' = << >>
    /\ hran' = << >>
    /\ hreturn' = None
    /\ xran' = << >>
    /\ UNCHANGED <<xpc, xcommand, xvalidation, xtest, xresult, xalive, editorVars>>
    /\ HUnchanged

HandlerInit ==
    /\ AgentInit /\ PatcherIdle /\ ExecIdle /\ HandlerIdle /\ DaemonIdle
    /\ config = [llm_provider |-> "openai", cache_enabled |-> TRUE]
    /\ EditorFresh
    /\ econfig \in EditorConfigs

HandlerNext ==
    \/ HCall \/ HRunCommand \/ HCommandDone \/ HReturn \/ HTaken
    \/ XGate \/ XValidate \/ XExecute \/ XChildExits

SpecHandler == HandlerInit /\ [][HandlerNext]_vars

\* The edit of the action in hand was refused or failed
EditNotDone == hedit = None \/ ~Get(hedit, "success", FALSE)

\* C40: _handle_file_edit runs the commands of an action only if the path
\* is allowed and the edit succeeded: while the edit of the action in hand
\* was refused or returned an error, no command of the action has been run
C40_CommandsOnlyAfterEdit ==
    (hpc # "idle" /\ EditNotDone) => hran = << >> /\ xran = << >>

(***************************************************************************)
(* src/ai/agent.py run_daemon under asyncio.run, and the LogWatcher of     *)
(* src/ai/watcher.py with its four monitor tasks                           *)
(***************************************************************************)
\* The monitors that follow the output of a subprocess they start:
\* journalctl -f, inotifywait -m, tail -f
FollowsSubprocess ==
    { "_watch_system_logs", "_watch_file_changes", "_watch_error_logs" }

\* How the first lines of a monitor may go: its subprocess is started, or
\* it goes on without one, or it logs an error and ends
BeginOutcomes(m) ==
    CASE m = "_watch_system_logs" -> { "spawned", "ends" }
      [] m = "_watch_service_status" -> { "no subprocess" }
      [] m = "_watch_file_changes" -> { "spawned", "no subprocess", "ends" }
      [] OTHER -> { "spawned", "ends" }

Finished(m) == watcher_tasks[m] \in { "done", "cancelled" }
Unfinished == { m \in Monitors : ~Finished(m) }

DUnchangedRest ==
    UNCHANGED <<agentVars, patcherVars, execVars, editorVars, handlerVars>>

\* run_daemon is started by asyncio.run and runs up to the await of
\* LogWatcher.start, which runs up to its await of asyncio.gather
DStart ==
    /\ dpc = "init"
    /\ dpc' = "start"
    /\ watcher_running' = TRUE
    /\ watcher_tasks' = [m \in Monitors |-> "created"]
    /\ UNCHANGED <<dsignal, dcancel, watcher_cancel, watcher_children,
                   watcher_stop>>
    /\ DUnchangedRest

\* a monitor task runs for the first time, up to the first await of its loop
MBegin(m) ==
    /\ watcher_tasks[m] = "created"
    /\ m \notin watcher_cancel
    /\ \E outcome \in BeginOutcomes(m) :
          /\ watcher_tasks' =
                [watcher_tasks EXCEPT ![m] =
                    IF outcome = "ends" \/ ~watcher_running THEN "done"
                    ELSE "watching"]
          /\ watcher_children' =
                IF outcome = "spawned" THEN watcher_children \cup { m }
                ELSE watcher_children
    /\ UNCHANGED <<dpc, dsignal, dcancel, watcher_running, watcher_cancel,
                   watcher_stop>>
    /\ DUnchangedRest

\* What may end a turn of a monitor's loop other than a line or a
\* timeout: reading the subprocess raises, or the subprocess has ended
TurnOutcomes(m) ==
    (IF m \in FollowsSubprocess THEN { "read raises" } ELSE {})
    \cup (IF m \in watcher_children THEN { "subprocess ends" } ELSE {})

\* one more turn of a monitor's `while self.running` loop: the flag is off
\* and the loop is left, or reading the subprocess raises and the loop is
\* left, or the subprocess has ended and the loop goes on reading its
\* closed output
MTurn(m) ==
    /\ watcher_tasks[m] = "watching"
    /\ m \notin watcher_cancel
    /\ IF ~watcher_running
       THEN /\ watcher_tasks' = [watcher_tasks EXCEPT ![m] = "done"]
            /\ UNCHANGED watcher_children
       ELSE \E outcome \in TurnOutcomes(m) :
               IF outcome = "read raises"
               THEN /\ watcher_tasks' = [watcher_tasks EXCEPT ![m] = "done"]
                    /\ UNCHANGED watcher_children
               ELSE /\ watcher_children' = watcher_children \ { m }
                    /\ UNCHANGED watcher_tasks
    /\ UNCHANGED <<dpc, dsignal, dcancel, watcher_running, watcher_cancel,
                   watcher_stop>>
    /\ DUnchangedRest

\* CancelledError is raised in a monitor at its await; it is not an
\* Exception, no handler of the monitor catches it, and the subprocess of
\* the monitor is left running
MCancelled(m) ==
    /\ m \in watcher_cancel
    /\ watcher_tasks[m] \in { "created", "watching" }
    /\ watcher_tasks' = [watcher_tasks EXCEPT ![m] = "cancelled"]
    /\ watcher_cancel' = watcher_cancel \ { m }
    /\ UNCHANGED <<dpc, dsignal, dcancel, watcher_running, watcher_children,
                   watcher_stop>>
    /\ DUnchangedRest

ShutdownSignals == { "SIGINT", "SIGTERM" }

\* The process receives its shutdown signal.  SIGTERM has no handler and
\* ends the process.  On SIGINT asyncio.run cancels the main task, and with
\* it the gather it awaits and the monitors; an interpreter that raises
\* KeyboardInterrupt inside the coroutine reaches run_daemon's handler only
\* while the coroutine is in the try statement.
DSignal ==
    /\ dsignal = "none"
    /\ dpc \in { "start", "sleep" }
    /\ \E sig \in ShutdownSignals, in_coroutine \in BOOLEAN :
          /\ dsignal' = sig
          /\ IF sig = "SIGTERM"
             THEN /\ dpc' = "killed"
                  /\ watcher_tasks' =
                        [m \in Monitors |->
                            IF Finished(m) THEN watcher_tasks[m] ELSE "killed"]
                  /\ UNCHANGED <<dcancel, watcher_running, watcher_cancel,
                                 watcher_stop>>
             ELSE IF dpc = "sleep" /\ in_coroutine
             THEN \* except KeyboardInterrupt: await self.watcher.stop()
                  /\ dpc' = "stopping"
                  /\ watcher_stop' = "called"
                  /\ watcher_running' = FALSE
                  /\ watcher_cancel' = Unfinished
                  /\ UNCHANGED <<dcancel, watcher_tasks>>
             ELSE /\ dcancel' = TRUE
                  /\ watcher_cancel' = Unfinished
                  /\ dpc' = IF dpc = "sleep" THEN "exited" ELSE dpc
                  /\ UNCHANGED <<watcher_running, watcher_tasks, watcher_stop>>
    /\ UNCHANGED watcher_children
    /\ DUnchangedRest

\* asyncio.gather is done, all monitors having ended, and the coroutine
\* that awaits it goes on: stop() returns, or start() raises the
\* CancelledError of the main task out of run_daemon, or start() returns
\* and run_daemon enters its try statement
DResume ==
    /\ dpc \in { "start", "stopping" }
    /\ \A m \in Monitors : Finished(m)
    /\ IF dpc = "stopping"
       THEN dpc' = "exited" /\ watcher_stop' = "returned"
       ELSE IF dcancel
       THEN dpc' = "exited" /\ UNCHANGED watcher_stop
       ELSE dpc' = "sleep" /\ UNCHANGED watcher_stop
    /\ UNCHANGED <<dsignal, dcancel, watcher_running, watcher_tasks,
                   watcher_cancel, watcher_children>>
    /\ DUnchangedRest

DaemonInit ==
    /\ Init
    /\ config = [llm_provider |-> "openai", cache_enabled |-> TRUE]

DaemonNext ==
    \/ DStart \/ DSignal \/ DResume
    \/ \E m \in Monitors : MBegin(m) \/ MTurn(m) \/ MCancelled(m)

SpecDaemon == DaemonInit /\ [][DaemonNext]_vars

\* C32: when the daemon has received its shutdown signal and has ended,
\* LogWatcher.stop() was called and has returned, and every monitor task
\* was cancelled or has ended
C32_ShutdownStopsMonitors ==
    (dsignal # "none" /\ dpc \in { "exited", "killed" })
    => /\ watcher_stop = "returned"
       /\ \A m \in Monitors : Finished(m)

====
